---- MODULE Spec2Model ----
(***************************************************************************)
(* Model of the knowledge base of the Email Intelligence System:           *)
(*   src/knowledge_base/knowledge_store.py     (KnowledgeStore)            *)
(*   src/knowledge_base/entity_extractor.py    (EntityExtractor)           *)
(*   src/knowledge_base/knowledge_processor.py (KnowledgeProcessor)        *)
(*                                                                         *)
(* Conventions.  A text is a sequence of one-character strings.  A Python  *)
(* dict whose iteration order matters (entity_map, entity_id_map,          *)
(* relationship_map) is a sequence of [k, v] pairs in insertion order.  An *)
(* entity or relationship dict is a function from field names to values;   *)
(* a field the dict does not hold is not in its DOMAIN.  Relevance,        *)
(* confidence and similarity are fixed-point numbers (see the scales).     *)
(***************************************************************************)
EXTENDS Integers, Sequences, FiniteSets, TLC

VARIABLES
    entity_map,         \* KnowledgeStore.entity_map: entity_id -> entity
    entity_id_map,      \* KnowledgeStore.entity_id_map: (text, type) -> slot
    index,              \* KnowledgeStore.index: the vectors of the FAISS index, by position
    relationship_map,   \* KnowledgeStore.relationship_map: relationship_id -> relationship
    blob_index,         \* the blob knowledge/index.faiss (<<>> while it does not exist)
    local_index,        \* the local file <local_index_path>.index (<<>> while it does not exist)
    blob_entities,      \* the blobs knowledge/entities/<type>/<id>.json
    blob_relationships, \* the blobs knowledge/relationships/<type>/<id>.json
    uuid4_count,        \* how many uuid4 values have been drawn
    calls,              \* how many entities / relationships callers have passed in
    last_call,          \* the last store call: its name, arguments and return value
    inserted,           \* history: every entity insertion (key, documents, returned id)
    effects,            \* history: the writes of the last add_entities call, in order
    slots_before,       \* history: entity_id_map of the process the last construction replaced
    rel_inserted,       \* history: every relationship insertion (triple, confidence, returned id)
    doc,                \* the document handed to the extractor and its collaborators' behaviour
    extract_state,      \* extract_entities_from_document: "idle", "returned" or "raised"
    ai_entities,        \* what _extract_entities_with_ai returned
    extracted,          \* what extract_entities_from_document returned
    infer_state,        \* extract_relationships: "idle" or "returned"
    inferred,           \* what extract_relationships returned
    search_args,        \* the arguments of the last search_entities call
    results,            \* what the last search_entities call returned
    prox_args,          \* the arguments of the last _check_entity_proximity call
    prox_score,         \* its return value in units of 1/window_size (-1: not called)
    input_blobs,        \* process_all_documents: blobs, the listing of the input bucket
    batch_state,        \* process_all_documents: "idle", "running" or "done"
    batch_pos,          \* how many blobs of the listing the loop has passed
    processed_count,    \* process_all_documents: processed_count
    entity_count,       \* process_all_documents: entity_count
    relationship_count, \* process_all_documents: relationship_count
    errors,             \* process_all_documents: errors
    outcomes,           \* history: how the iteration of each blob ended
    doc_events,         \* history: per blob, the steps taken on it, in order
    threads,            \* per thread inside add_entities: position and locals
    result_blobs,       \* the blobs knowledge/processing_results/<file>_result.json
    summary             \* what process_all_documents returned and saved

store_vars == <<entity_map, entity_id_map, index, relationship_map,
                blob_index, local_index, blob_entities, blob_relationships,
                uuid4_count, calls, last_call, inserted, effects, slots_before, rel_inserted>>

extract_vars == <<doc, extract_state, ai_entities, extracted, infer_state, inferred>>

prox_vars == <<prox_args, prox_score>>

search_vars == <<search_args, results>>

thread_vars == <<threads>>

batch_vars == <<input_blobs, batch_state, batch_pos, processed_count, entity_count,
                relationship_count, errors, outcomes, doc_events, result_blobs,
                summary>>

-----------------------------------------------------------------------------
(* Bounds of the model. *)

\* Entities (relationships) passed to the store over one run.
MaxInserts == 2

\* Lengths of the list one add_entities / add_relationships call receives.
BatchSizes == {1, 2}

\* max_chunk_length of _extract_entities_with_ai (16000 characters in the
\* source, line 85), scaled down so that short texts span several windows.
ChunkLength == 2

-----------------------------------------------------------------------------
(* Python helpers. *)

\* The letters, in both cases.
UpperLetters ==
    <<"A", "B", "C", "D", "E", "F", "G", "H", "I", "J", "K", "L", "M",
      "N", "O", "P", "Q", "R", "S", "T", "U", "V", "W", "X", "Y", "Z">>

LowerLetters ==
    <<"a", "b", "c", "d", "e", "f", "g", "h", "i", "j", "k", "l", "m",
      "n", "o", "p", "q", "r", "s", "t", "u", "v", "w", "x", "y", "z">>

\* str.lower(), one character.
LowerChar(c) ==
    IF \E i \in DOMAIN UpperLetters : UpperLetters[i] = c
    THEN LowerLetters[CHOOSE i \in DOMAIN UpperLetters : UpperLetters[i] = c]
    ELSE c

\* str.upper(), one character.
UpperChar(c) ==
    IF \E i \in DOMAIN LowerLetters : LowerLetters[i] = c
    THEN UpperLetters[CHOOSE i \in DOMAIN LowerLetters : LowerLetters[i] = c]
    ELSE c

\* str.upper()
Upper(s) == [i \in DOMAIN s |-> UpperChar(s[i])]

\* str.lower()
Lower(s) == [i \in DOMAIN s |-> LowerChar(s[i])]

Max(a, b) == IF a >= b THEN a ELSE b

Min(a, b) == IF a <= b THEN a ELSE b

\* list.sort(key=..., reverse=True), keys[i] the key of items[i]: highest
\* key first; the sort is stable, items of equal key keep their order.
SortDescending(items, keys) ==
    LET Before(i, j) ==
            \/ keys[i] > keys[j]
            \/ keys[i] = keys[j] /\ i < j
        Rank(i) == Cardinality({j \in DOMAIN items : Before(j, i)}) + 1
    IN  [r \in DOMAIN items |-> items[CHOOSE i \in DOMAIN items : Rank(i) = r]]

\* x in y, for strings.
IsSubstring(x, y) ==
    \E p \in 0..(Len(y) - Len(x)) : SubSeq(y, p + 1, p + Len(x)) = x

IsSpace(c) == c \in {" ", "\n", "\t"}

\* set(s.split()): the maximal runs of characters that are no whitespace.
Words(s) ==
    {SubSeq(s, run[1], run[2]) :
        run \in {r \in (DOMAIN s) \X (DOMAIN s) :
                    /\ r[1] <= r[2]
                    /\ \A m \in r[1]..r[2] : ~IsSpace(s[m])
                    /\ (r[1] = 1 \/ IsSpace(s[r[1] - 1]))
                    /\ (r[2] = Len(s) \/ IsSpace(s[r[2] + 1]))}}

\* dict.get(k): the value under k, or None.
None == "None"

DictHas(d, k) == \E i \in DOMAIN d : d[i].k = k

DictGet(d, k) ==
    IF DictHas(d, k)
    THEN d[CHOOSE i \in DOMAIN d : d[i].k = k].v
    ELSE None

\* d[k] = v: replaces the value in place, or appends a new key at the end.
DictSet(d, k, v) ==
    IF DictHas(d, k)
    THEN [i \in DOMAIN d |-> IF d[i].k = k THEN [k |-> k, v |-> v] ELSE d[i]]
    ELSE Append(d, [k |-> k, v |-> v])

DictKeys(d) == {d[i].k : i \in DOMAIN d}

DictValues(d) == {d[i].v : i \in DOMAIN d}

\* entity.get(field, default)
Get(e, field, default) == IF field \in DOMAIN e THEN e[field] ELSE default

\* A dict with one more (or one replaced) field.
With(e, field, value) ==
    [f \in DOMAIN e \cup {field} |-> IF f = field THEN value ELSE e[f]]

-----------------------------------------------------------------------------
(* Entity identity. *)

\* The name hashed into the id: f"{text.lower()}-{type}".  The type is one
\* token; it holds no hyphen, so the name determines (text.lower(), type).
IdName(text, type) == Lower(text) \o <<"-", type>>

\* uuid.uuid5(uuid.NAMESPACE_DNS, name): a collision-free hash of the name.
Uuid5(name) == <<"uuid5">> \o name

\* An id that hashes the text as it is written.
StoreEntityIdCaseSensitive(entity) ==
    Uuid5(entity["text"] \o <<"-", entity["type"]>>)

\* The id KnowledgeStore.add_entities gives an entity that has none.
StoreEntityId(entity) == Uuid5(IdName(entity["text"], entity["type"]))

\* The id EntityExtractor._enrich_entities gives an entity, line 255.
EnrichEntityId(entity) ==
    Uuid5(Lower(entity["text"]) \o <<"-", entity["type"]>>)

\* The key of entity_id_map: (text.lower(), type).
EntityKey(entity) == <<Lower(entity["text"]), entity["type"]>>

-----------------------------------------------------------------------------
(* KnowledgeStore.add_entities *)

\* entity.get("entity_id") is falsy: the field is missing or empty.
NoEntityId(entity) == Get(entity, "entity_id", <<>>) = <<>>

\* Lines 140-147: the id under which the entity is handled.
EntityIdOf(entity) ==
    IF NoEntityId(entity) THEN StoreEntityId(entity) ELSE entity["entity_id"]

\* A variant: the incoming documents replace the stored ones.
MergeSourceDocumentsOverwrite(existing, entity) ==
    Get(entity, "source_documents", {})

\* Lines 155-157: the merged source documents.
MergeSourceDocuments(existing, entity) ==
    Get(existing, "source_documents", {}) \cup Get(entity, "source_documents", {})

\* A variant: the incoming entity takes the place of the stored one.
MergeEntityReplace(existing, entity) == entity

\* A variant: a field the stored entity has keeps its value.
MergeEntityFirstWins(existing, entity) ==
    LET copied == DOMAIN entity \ (DOMAIN existing \cup {"entity_id", "source_documents"})
        fields == DOMAIN existing \cup copied \cup {"source_documents"}
    IN  [f \in fields |->
            IF f = "source_documents" THEN MergeSourceDocuments(existing, entity)
            ELSE IF f \in copied THEN entity[f]
            ELSE existing[f]]

\* Lines 153-166: the stored entity after an incoming one is merged into it.
MergeEntity(existing, entity) ==
    LET copied == DOMAIN entity \ {"entity_id", "source_documents"}
        fields == DOMAIN existing \cup copied \cup {"source_documents"}
    IN  [f \in fields |->
            IF f = "source_documents" THEN MergeSourceDocuments(existing, entity)
            ELSE IF f \in copied THEN entity[f]
            ELSE existing[f]]

\* Lines 139-187, one iteration of the loop over the entities of the call.
\* st.alias[j] is TRUE when entity_map holds the very dict entities[j].
AddEntityStep(st, i) ==
    LET entity == With(st.entities[i], "entity_id", EntityIdOf(st.entities[i]))
        entity_id == entity["entity_id"]
        key == EntityKey(entity)
    IN  IF DictHas(st.entity_map, entity_id)
        THEN LET merged == MergeEntity(DictGet(st.entity_map, entity_id), entity)
                 existing_id == DictGet(st.entity_id_map, key)
                 reindex == "embedding" \in DOMAIN entity /\ DictHas(st.entity_id_map, key)
             IN  [st EXCEPT
                    !.entities = [st.entities EXCEPT ![i] = entity],
                    !.entity_map = DictSet(st.entity_map, entity_id, merged),
                    !.vector_ids = IF reindex THEN Append(@, existing_id) ELSE @,
                    !.vectors_to_add = IF reindex THEN Append(@, entity["embedding"]) ELSE @,
                    !.entity_ids = Append(@, entity_id)]
        ELSE LET id_map == DictSet(st.entity_id_map, key, Len(st.entity_id_map))
                 embedded == "embedding" \in DOMAIN entity
             IN  [st EXCEPT
                    !.entities = [st.entities EXCEPT ![i] = entity],
                    !.alias = [st.alias EXCEPT ![i] = TRUE],
                    !.entity_map = DictSet(st.entity_map, entity_id, entity),
                    !.entity_id_map = id_map,
                    !.vector_ids = IF embedded THEN Append(@, DictGet(id_map, key)) ELSE @,
                    !.vectors_to_add = IF embedded THEN Append(@, entity["embedding"]) ELSE @,
                    !.entity_ids = Append(@, entity_id)]

RECURSIVE AddEntitiesLoop(_, _)
AddEntitiesLoop(st, i) ==
    IF i > Len(st.entities) THEN st ELSE AddEntitiesLoop(AddEntityStep(st, i), i + 1)

\* The caller's list after the loop: an entity the map holds by reference
\* shows every merge made into it later in the call.
EntitiesAfterLoop(st) ==
    [j \in DOMAIN st.entities |->
        IF st.alias[j]
        THEN DictGet(st.entity_map, st.entities[j]["entity_id"])
        ELSE st.entities[j]]

\* A variant: the vectors are added one call of index.add each, the first
\* of them again with the bulk.
IndexAddRepeated(idx, vectors_to_add) ==
    idx \o <<vectors_to_add[1]>> \o vectors_to_add

\* Lines 189-198: one bulk add of the vectors of the call.
IndexAdd(idx, vectors_to_add) == idx \o vectors_to_add

\* KnowledgeStore._save_index_to_storage: the local file, and the blob it is
\* uploaded to, after the call.
SaveIndexToStorage(idx, blob) == IF Len(idx) > 0 THEN idx ELSE blob

\* The blob name knowledge/entities/<type>/<id>.json
EntityBlobName(entity) == <<entity["type"], entity["entity_id"]>>

\* blob.upload_from_string: the bucket with the blob written or replaced.
BlobPut(blobs, name, content) ==
    [n \in DOMAIN blobs \cup {name} |-> IF n = name THEN content ELSE blobs[n]]

\* A bucket prefix that holds no blob.
NoBlobs == [n \in {} |-> {}]

\* KnowledgeStore._save_entities_to_storage: one upload per entity of the
\* list, in list order; a later upload to the same name replaces the earlier.
RECURSIVE SaveEntitiesToStorage(_, _, _)
SaveEntitiesToStorage(blobs, entities, j) ==
    IF j > Len(entities) THEN blobs
    ELSE SaveEntitiesToStorage(
            BlobPut(blobs, EntityBlobName(entities[j]), entities[j]), entities, j + 1)

\* The local state of add_entities when its loop has ended.
AddEntitiesResult(emap, idmap, entities) ==
    AddEntitiesLoop(
        [entities |-> entities,
         alias |-> [j \in DOMAIN entities |-> FALSE],
         entity_map |-> emap,
         entity_id_map |-> idmap,
         entity_ids |-> <<>>,
         vectors_to_add |-> <<>>,
         vector_ids |-> <<>>], 1)

\* The entities callers pass to add_entities: a text in either case, a type,
\* one source document, with or without an embedding, and either no id or
\* the id the extractor gave it.
EntityTextTypes ==
    {<<(<<"a">>), "PERSON">>, <<(<<"A">>), "PERSON">>, <<(<<"a">>), "PROJECT">>}

Documents == {"d1", "d2"}

Embeddings == {1, 2}

BareEntities ==
    {[text |-> tt[1], type |-> tt[2], relevance |-> 7, source_documents |-> {d}] :
        tt \in EntityTextTypes, d \in Documents}

EntityPool ==
    LET embedded == BareEntities \cup
                    {With(e, "embedding", v) : e \in BareEntities, v \in Embeddings}
    IN  embedded \cup {With(e, "entity_id", EnrichEntityId(e)) : e \in embedded}

\* The lists of entities one call may receive.
EntityLists(pool) ==
    UNION {[1..n -> pool] : n \in BatchSizes}

\* Entities whose caller set entity_id itself: to a name of its own, or to
\* the id of another entity.
ForeignIds == {<<"custom-id">>, Uuid5(IdName(<<"z">>, "TERM"))}

ForeignPool ==
    BareEntities \cup {With(e, "entity_id", id) : e \in BareEntities, id \in ForeignIds}

\* What two documents that mention the same person hand the store: the text
\* as each writes it; relevance, source document and embedding of each
\* document; with or without the embedding and the metadata field.  One
\* entity of another key stands beside them.
MergeMentions == {<<3, "d1", 1>>, <<9, "d2", 2>>}

MergePool ==
    LET bare == {[text |-> t, type |-> "PERSON", relevance |-> mention[1],
                  source_documents |-> {mention[2]}, embedding |-> mention[3]] :
                    t \in {<<"a">>, <<"A">>}, mention \in MergeMentions}
        unembedded == {[f \in DOMAIN e \ {"embedding"} |-> e[f]] : e \in bare}
        plain == bare \cup unembedded
    IN  plain \cup {With(e, "metadata", "email") : e \in plain}
              \cup {[text |-> <<"b">>, type |-> "PROJECT", relevance |-> 8,
                     source_documents |-> {"d1"}]}

\* The writes of one add_entities call in the order of its statements: the
\* loop writes entity_map once per entity (lines 157-166 or 179); when
\* vectors were queued the index takes one add (lines 190-198) and is saved
\* (line 201); then every entity of the list is uploaded (line 204).
CallEffects(st) ==
    [j \in DOMAIN st.entities |-> "entity_map"]
    \o (IF st.vectors_to_add # <<>> THEN <<"index.add", "index.save">> ELSE <<>>)
    \o [j \in DOMAIN st.entities |-> "entity.save"]

\* KnowledgeStore.add_entities(entities), lines 123-206: what the call does
\* to the store.  On an empty list (lines 132-133) nothing changes.
AddEntitiesUpdate(entities) ==
    LET st == AddEntitiesResult(entity_map, entity_id_map, entities)
        updated == st.vectors_to_add # <<>>
        idx == IF updated THEN IndexAdd(index, st.vectors_to_add) ELSE index
    IN  /\ entity_map' = st.entity_map
        /\ entity_id_map' = st.entity_id_map
        /\ index' = idx
        /\ blob_index' = IF updated THEN SaveIndexToStorage(idx, blob_index) ELSE blob_index
        /\ local_index' = IF updated THEN SaveIndexToStorage(idx, local_index) ELSE local_index
        /\ blob_entities' = SaveEntitiesToStorage(blob_entities, EntitiesAfterLoop(st), 1)
        /\ effects' = CallEffects(st)
        /\ inserted' = inserted \cup
               {[key |-> EntityKey(entities[j]),
                 docs |-> Get(entities[j], "source_documents", {}),
                 given_id |-> ~NoEntityId(entities[j]),
                 id |-> st.entity_ids[j]] : j \in DOMAIN entities}

\* The return value of add_entities(entities).
AddEntitiesReturn(entities) ==
    AddEntitiesResult(entity_map, entity_id_map, entities).entity_ids

\* A caller calls add_entities(entities).
AddEntities(entities) ==
    /\ entities # <<>>
    /\ calls + Len(entities) <= MaxInserts
    /\ AddEntitiesUpdate(entities)
    /\ last_call' = [op |-> "add_entities", args |-> entities,
                     ret |-> AddEntitiesReturn(entities)]
    /\ calls' = calls + Len(entities)
    /\ UNCHANGED <<relationship_map, blob_relationships, uuid4_count, slots_before,
                   rel_inserted>>

-----------------------------------------------------------------------------
(* KnowledgeStore.add_relationships *)

\* str(uuid.uuid4()): the n-th fresh id.
Uuid4(n) == <<"uuid4", n>>

\* The identity of a relationship, lines 231-233.
Triple(rel) ==
    <<rel["source_entity_id"], rel["target_entity_id"], rel["relationship_type"]>>

\* Lines 230-233: the ids of the stored relationships with the same triple,
\* in the order the scan of relationship_map meets them.
SameTriple(rmap, relationship) ==
    SelectSeq(rmap, LAMBDA p : Triple(p.v) = Triple(relationship))

\* A variant: the incoming confidence always replaces the stored one.
MergeConfidenceLastWins(existing_rel, relationship) ==
    With(existing_rel, "confidence", Get(relationship, "confidence", 0))

\* Lines 235-237: the stored relationship after a duplicate came in.
MergeConfidence(existing_rel, relationship) ==
    IF Get(relationship, "confidence", 0) > Get(existing_rel, "confidence", 0)
    THEN With(existing_rel, "confidence", relationship["confidence"])
    ELSE existing_rel

\* Lines 222-245, one iteration of the loop over the relationships of the call.
AddRelationshipStep(st, i) ==
    LET given == st.relationships[i]
        fresh == Get(given, "relationship_id", <<>>) = <<>>
        rel_id == IF fresh THEN Uuid4(st.uuid4_count + 1) ELSE given["relationship_id"]
        relationship == With(given, "relationship_id", rel_id)
        drawn == IF fresh THEN st.uuid4_count + 1 ELSE st.uuid4_count
        dup == SameTriple(st.relationship_map, relationship)
    IN  IF dup # <<>>
        THEN [st EXCEPT
                !.relationships = [st.relationships EXCEPT ![i] = relationship],
                !.uuid4_count = drawn,
                !.relationship_map =
                    DictSet(@, dup[1].k, MergeConfidence(dup[1].v, relationship)),
                !.relationship_ids = Append(@, dup[1].k)]
        ELSE [st EXCEPT
                !.relationships = [st.relationships EXCEPT ![i] = relationship],
                !.alias = [st.alias EXCEPT ![i] = TRUE],
                !.uuid4_count = drawn,
                !.relationship_map = DictSet(@, rel_id, relationship),
                !.relationship_ids = Append(@, rel_id)]

RECURSIVE AddRelationshipsLoop(_, _)
AddRelationshipsLoop(st, i) ==
    IF i > Len(st.relationships) THEN st
    ELSE AddRelationshipsLoop(AddRelationshipStep(st, i), i + 1)

\* The caller's list after the loop: a relationship the map holds by
\* reference shows the confidence raised later in the call.
RelationshipsAfterLoop(st) ==
    [j \in DOMAIN st.relationships |->
        IF st.alias[j]
        THEN DictGet(st.relationship_map, st.relationships[j]["relationship_id"])
        ELSE st.relationships[j]]

\* The blob name knowledge/relationships/<type>/<id>.json
RelationshipBlobName(rel) == <<rel["relationship_type"], rel["relationship_id"]>>

\* KnowledgeStore._save_relationships_to_storage: one upload per relationship
\* of the list.
RECURSIVE SaveRelationshipsToStorage(_, _, _)
SaveRelationshipsToStorage(blobs, relationships, j) ==
    IF j > Len(relationships) THEN blobs
    ELSE SaveRelationshipsToStorage(
            BlobPut(blobs, RelationshipBlobName(relationships[j]), relationships[j]),
            relationships, j + 1)

\* The local state of add_relationships when its loop has ended.
AddRelationshipsResult(rmap, drawn, relationships) ==
    AddRelationshipsLoop(
        [relationships |-> relationships,
         alias |-> [j \in DOMAIN relationships |-> FALSE],
         relationship_map |-> rmap,
         uuid4_count |-> drawn,
         relationship_ids |-> <<>>], 1)

\* EntityExtractor.extract_relationships, line 352: every relationship of
\* the list gets a fresh uuid4 before the store sees it.
WithFreshIds(relationships, drawn) ==
    [j \in DOMAIN relationships |->
        With(relationships[j], "relationship_id", Uuid4(drawn + j))]

\* KnowledgeStore.add_relationships(relationships), lines 208-250: what the
\* call does to the store when `drawn` uuid4 values have been drawn so far.
\* On an empty list (lines 217-218) nothing changes.
AddRelationshipsUpdate(given, drawn) ==
    LET st == AddRelationshipsResult(relationship_map, drawn, given)
    IN  /\ relationship_map' = st.relationship_map
        /\ uuid4_count' = st.uuid4_count
        /\ blob_relationships' =
               SaveRelationshipsToStorage(blob_relationships, RelationshipsAfterLoop(st), 1)
        /\ rel_inserted' = rel_inserted \cup
               {[triple |-> Triple(given[j]),
                 confidence |-> Get(given[j], "confidence", 0),
                 id |-> st.relationship_ids[j]] : j \in DOMAIN given}

\* The return value of add_relationships(relationships).
AddRelationshipsReturn(given, drawn) ==
    AddRelationshipsResult(relationship_map, drawn, given).relationship_ids

\* A caller calls add_relationships: the extractor's output (ids already
\* drawn, line 352 of the extractor) or relationships without ids.
AddRelationships(given, from_extractor) ==
    /\ given # <<>>
    /\ calls + Len(given) <= MaxInserts
    /\ LET relationships == IF from_extractor
                            THEN WithFreshIds(given, uuid4_count) ELSE given
           drawn == IF from_extractor THEN uuid4_count + Len(given) ELSE uuid4_count
       IN  /\ AddRelationshipsUpdate(relationships, drawn)
           /\ last_call' = [op |-> "add_relationships", args |-> given,
                            ret |-> AddRelationshipsReturn(relationships, drawn)]
    /\ calls' = calls + Len(given)
    /\ UNCHANGED <<entity_map, entity_id_map, index, blob_index, local_index, blob_entities, inserted,
                   effects, slots_before>>

\* The relationships callers pass to add_relationships: between a PERSON
\* and a PROJECT in either direction, confidence in tenths.
PersonId == Uuid5(IdName(<<"a">>, "PERSON"))

ProjectId == Uuid5(IdName(<<"a">>, "PROJECT"))

Confidences == {2, 4, 9}

RelationshipPool ==
    {[source_entity_id |-> PersonId, target_entity_id |-> ProjectId,
      source_type |-> "PERSON", target_type |-> "PROJECT",
      relationship_type |-> t, confidence |-> c] :
        t \in {"WORKS_ON", "RELATED_TO"}, c \in Confidences}
    \cup
    {[source_entity_id |-> ProjectId, target_entity_id |-> PersonId,
      source_type |-> "PROJECT", target_type |-> "PERSON",
      relationship_type |-> "WORKS_ON", confidence |-> c] : c \in Confidences}

RelationshipLists == UNION {[1..n -> RelationshipPool] : n \in BatchSizes}

-----------------------------------------------------------------------------
(* KnowledgeStore: construction and load_all_from_storage *)

\* _load_index_from_storage(index), lines 81-106.  Line 103 binds the
\* loaded index to the parameter name inside the function (`param`); the
\* object the caller passed (`caller`) is not touched by the call.
LoadIndexFromStorage(idx, blob) ==
    LET loaded_index == blob
    IN  [param |-> IF blob # <<>> /\ Len(loaded_index) > 0 THEN loaded_index ELSE idx,
         caller |-> idx]

\* _initialize_index, lines 52-79: the local file if there is one, else a
\* new IndexFlatL2 handed to _load_index_from_storage.
InitializeIndex(local_file, blob) ==
    IF local_file # <<>>
    THEN local_file
    ELSE LoadIndexFromStorage(<<>>, blob).caller

\* KnowledgeStore.__init__, lines 35-50, in a new process on the same
\* bucket: on the machine that wrote the local index file, or on a new
\* machine whose local disk holds none.
Construct(new_machine) ==
    LET local_file == IF new_machine THEN <<>> ELSE local_index
    IN  /\ index' = InitializeIndex(local_file, blob_index)
        /\ local_index' = local_file
        /\ entity_map' = <<>>
        /\ entity_id_map' = <<>>
        /\ relationship_map' = <<>>
        /\ last_call' = [op |-> "init", args |-> [local_file |-> local_file # <<>>],
                         ret |-> <<>>]
        /\ slots_before' = entity_id_map
        /\ UNCHANGED <<blob_index, blob_entities, blob_relationships,
                       uuid4_count, calls, inserted, effects, rel_inserted>>

\* bucket.list_blobs lists by name: knowledge/<kind>/<type>/<id>.json, so
\* by type first.
TypeRank(type) ==
    CASE type = "EXPERTISE_IN" -> 1
      [] type = "PERSON" -> 2
      [] type = "PROJECT" -> 3
      [] type = "RELATED_TO" -> 4
      [] type = "TERM" -> 5
      [] type = "USES" -> 6
      [] type = "WORKS_ON" -> 7
      [] OTHER -> 8

\* The orders in which list_blobs may give the blobs: by type, and within a
\* type by id, a hash whose order the texts do not tell.
ListingOrders(blobs) ==
    {order \in [1..Cardinality(DOMAIN blobs) -> DOMAIN blobs] :
        /\ \A i, j \in DOMAIN order : i # j => order[i] # order[j]
        /\ \A i, j \in DOMAIN order :
              i < j => TypeRank(order[i][1]) <= TypeRank(order[j][1])}

\* _load_entities_from_storage, lines 499-514: the blobs from the i-th of
\* the listing on.
RECURSIVE LoadEntitiesFrom(_, _, _, _)
LoadEntitiesFrom(st, blobs, order, i) ==
    IF i > Len(order) THEN st
    ELSE LET entity_data == blobs[order[i]]
             entity_id == entity_data["entity_id"]
         IN  LoadEntitiesFrom(
                [entity_map |-> DictSet(st.entity_map, entity_id, entity_data),
                 entity_id_map |-> DictSet(st.entity_id_map, EntityKey(entity_data),
                                           Len(st.entity_id_map)),
                 entity_count |-> st.entity_count + 1],
                blobs, order, i + 1)

\* _load_relationships_from_storage, lines 528-540.
RECURSIVE LoadRelationshipsFrom(_, _, _, _)
LoadRelationshipsFrom(st, blobs, order, i) ==
    IF i > Len(order) THEN st
    ELSE LET relationship_data == blobs[order[i]]
             rel_id == relationship_data["relationship_id"]
         IN  LoadRelationshipsFrom(
                [relationship_map |-> DictSet(st.relationship_map, rel_id,
                                              relationship_data),
                 relationship_count |-> st.relationship_count + 1],
                blobs, order, i + 1)

\* load_all_from_storage, lines 476-488.
LoadAllFromStorage(entity_order, relationship_order) ==
    LET ents == LoadEntitiesFrom([entity_map |-> entity_map,
                                  entity_id_map |-> entity_id_map,
                                  entity_count |-> 0],
                                 blob_entities, entity_order, 1)
        rels == LoadRelationshipsFrom([relationship_map |-> relationship_map,
                                       relationship_count |-> 0],
                                      blob_relationships, relationship_order, 1)
    IN  /\ entity_map' = ents.entity_map
        /\ entity_id_map' = ents.entity_id_map
        /\ relationship_map' = rels.relationship_map
        /\ last_call' = [op |-> "load_all_from_storage", args |-> <<>>,
                         ret |-> <<ents.entity_count, rels.relationship_count>>]
        /\ UNCHANGED <<index, blob_index, local_index, blob_entities,
                       blob_relationships, uuid4_count, calls, inserted, effects, slots_before, rel_inserted>>

-----------------------------------------------------------------------------
(* EntityExtractor: text search. *)

\* window_size of _check_entity_proximity, in characters.
WindowSize == 200

\* context_window of _find_entity_contexts, in characters.
ContextWindow == 100

\* contexts[:5] in _enrich_entities.
MaxContexts == 5

\* The pattern re.escape(entity_text) matches at offset pos, re.IGNORECASE.
MatchesAt(entity_text, document_text, pos) ==
    /\ pos + Len(entity_text) <= Len(document_text)
    /\ Lower(SubSeq(document_text, pos + 1, pos + Len(entity_text))) = Lower(entity_text)

\* re.finditer(escaped, document_text, re.IGNORECASE) from offset pos on: the
\* (start, end) of the matches, leftmost first, none overlapping another (the
\* scan resumes at the end of a match).
RECURSIVE FindIter(_, _, _)
FindIter(entity_text, document_text, pos) ==
    LET starts == {p \in pos..(Len(document_text) - Len(entity_text)) :
                      MatchesAt(entity_text, document_text, p)}
        first == CHOOSE p \in starts : \A q \in starts : p <= q
    IN  IF starts = {} THEN <<>>
        ELSE <<(<<first, first + Len(entity_text)>>)>>
             \o FindIter(entity_text, document_text, first + Max(Len(entity_text), 1))

\* Lines 387-392: the distance between two matches.
Distance(p1, p2) ==
    IF p2[1] >= p1[2] THEN p2[1] - p1[2]
    ELSE IF p1[1] >= p2[2] THEN p1[1] - p2[2]
    ELSE 0

\* Lines 383-394: min_distance over every pair of matches.
MinDistance(positions1, positions2) ==
    LET ds == {Distance(positions1[i], positions2[j]) :
                  i \in DOMAIN positions1, j \in DOMAIN positions2}
    IN  CHOOSE d \in ds : \A x \in ds : d <= x

\* Lines 397-403: the score of a distance, in units of 1/window_size.
ProximityOfDistance(min_distance, window_size) ==
    IF min_distance <= window_size
    THEN Max(0, window_size - min_distance)
    ELSE 0

\* EntityExtractor._check_entity_proximity, in units of 1/window_size.
CheckEntityProximity(entity1_text, entity2_text, document_text, window_size) ==
    LET entity1_positions == FindIter(entity1_text, document_text, 0)
        entity2_positions == FindIter(entity2_text, document_text, 0)
    IN  IF entity1_positions = <<>> \/ entity2_positions = <<>> THEN 0
        ELSE ProximityOfDistance(MinDistance(entity1_positions, entity2_positions),
                                 window_size)

\* str.strip()
RECURSIVE Strip(_)
Strip(s) ==
    IF s = <<>> THEN s
    ELSE IF IsSpace(s[1]) THEN Strip(Tail(s))
    ELSE IF IsSpace(s[Len(s)]) THEN Strip(SubSeq(s, 1, Len(s) - 1))
    ELSE s

\* Lines 298-310: the snippet around one match.
ContextOf(match, document_text, context_window) ==
    LET start == Max(0, match[1] - context_window)
        end == Min(Len(document_text), match[2] + context_window)
        context == Strip(SubSeq(document_text, start + 1, end))
        head == IF start > 0 THEN <<"...">> ELSE <<>>
        tail == IF end < Len(document_text) THEN <<"...">> ELSE <<>>
    IN  head \o context \o tail

\* EntityExtractor._find_entity_contexts
FindEntityContexts(entity_text, document_text, context_window) ==
    LET matches == FindIter(entity_text, document_text, 0)
    IN  [k \in DOMAIN matches |-> ContextOf(matches[k], document_text, context_window)]

-----------------------------------------------------------------------------
(* EntityExtractor.extract_entities_from_document *)

\* Line 90: the windows of the text.
ChunkText(text, max_chunk_length) ==
    [k \in 1..((Len(text) + max_chunk_length - 1) \div max_chunk_length) |->
        SubSeq(text, (k - 1) * max_chunk_length + 1,
               Min(k * max_chunk_length, Len(text)))]

\* An item of the JSON array is a JSON object (a dict).
IsDict(item) == "not_a_dict" \notin DOMAIN item

\* Lines 116-137, what one window adds to the entities.  The reply of the
\* generative model is [kind, items]: the call raised ("error"), the text
\* is not JSON ("invalid_json"), it is JSON but no array ("not_list"), or
\* it is an array ("list").  Setting chunk_index on an item that is no dict
\* raises, which the outer handler catches before entities.extend.
ChunkEntities(reply, chunk_idx) ==
    IF reply.kind = "list" /\ \A k \in DOMAIN reply.items : IsDict(reply.items[k])
    THEN [k \in DOMAIN reply.items |-> With(reply.items[k], "chunk_index", chunk_idx)]
    ELSE <<>>

\* EntityExtractor._extract_entities_with_ai, windows chunk_idx.. of the text.
RECURSIVE ExtractChunksFrom(_, _, _)
ExtractChunksFrom(text_chunks, replies, chunk_idx) ==
    IF chunk_idx >= Len(text_chunks) THEN <<>>
    ELSE ChunkEntities(replies[chunk_idx + 1], chunk_idx)
         \o ExtractChunksFrom(text_chunks, replies, chunk_idx + 1)

\* A variant: a reply that cannot be used ends the extraction with nothing.
ExtractEntitiesWithAiAbort(text, replies) ==
    IF \E k \in DOMAIN replies : replies[k].kind # "list" THEN <<>>
    ELSE ExtractChunksFrom(ChunkText(text, ChunkLength), replies, 0)

\* EntityExtractor._extract_entities_with_ai
ExtractEntitiesWithAi(text, replies) ==
    ExtractChunksFrom(ChunkText(text, ChunkLength), replies, 0)

\* entity["text"].lower() and entity["type"] of lines 220 and 227 succeed.
HasKeyFields(entity) == {"text", "type"} \subseteq DOMAIN entity

\* A variant: the later candidate of a key replaces the earlier.
CombineStepLastWins(emap, entity) == DictSet(emap, EntityKey(entity), entity)

\* Lines 220-223 and 227-230: the dict after one candidate.
CombineStep(emap, entity) ==
    LET key == EntityKey(entity)
    IN  IF \/ ~DictHas(emap, key)
           \/ Get(entity, "relevance", 0) > Get(DictGet(emap, key), "relevance", 0)
        THEN DictSet(emap, key, entity)
        ELSE emap

RECURSIVE CombineLoop(_, _, _)
CombineLoop(emap, entities, i) ==
    IF i > Len(entities) THEN emap
    ELSE CombineLoop(CombineStep(emap, entities[i]), entities, i + 1)

\* Line 236: combined.sort(key=relevance, reverse=True).
SortByRelevance(entities) ==
    SortDescending(entities, [k \in DOMAIN entities |-> Get(entities[k], "relevance", 0)])

\* EntityExtractor._combine_entity_results raises (KeyError).
CombineRaises(ai, pattern_entities) ==
    \E k \in DOMAIN (ai \o pattern_entities) : ~HasKeyFields((ai \o pattern_entities)[k])

\* EntityExtractor._combine_entity_results, when it does not raise.
CombineEntityResults(ai, pattern_entities) ==
    LET emap == CombineLoop(CombineLoop(<<>>, ai, 1), pattern_entities, 1)
    IN  SortByRelevance([k \in DOMAIN emap |-> emap[k].v])

\* embedding_model.get_embeddings([entity_text])[0].values
Embedding(entity_text) == <<"embedding", entity_text>>

\* Lines 253-276: one enriched entity.
EnrichEntity(entity, document_text, document_id) ==
    [entity_id |-> EnrichEntityId(entity),
     text |-> entity["text"],
     type |-> entity["type"],
     relevance |-> Get(entity, "relevance", 5),
     embedding |-> Embedding(entity["text"]),
     source_documents |-> {document_id},
     contexts |-> LET contexts == FindEntityContexts(entity["text"], document_text,
                                                     ContextWindow)
                  IN  SubSeq(contexts, 1, Min(MaxContexts, Len(contexts))),
     metadata |-> Get(entity, "metadata", "{}")]

\* EntityExtractor._enrich_entities raises: the embedding model fails on the
\* first entity.
EnrichRaises(entities, embedding_fails) == entities # <<>> /\ embedding_fails

\* EntityExtractor._enrich_entities, when it does not raise.
EnrichEntities(entities, document_text, document_id) ==
    [k \in DOMAIN entities |-> EnrichEntity(entities[k], document_text, document_id)]

\* EntityExtractor.extract_entities_from_document: "raised", or the list.
ExtractOutcome(d) ==
    LET ai == ExtractEntitiesWithAi(d.text, d.replies)
        combined == CombineEntityResults(ai, d.pattern_entities)
    IN  IF CombineRaises(ai, d.pattern_entities)
        THEN [state |-> "raised", ai |-> ai, entities |-> <<>>]
        ELSE IF EnrichRaises(combined, d.embedding_fails)
        THEN [state |-> "raised", ai |-> ai, entities |-> <<>>]
        ELSE [state |-> "returned", ai |-> ai,
              entities |-> EnrichEntities(combined, d.text, d.document_id)]

-----------------------------------------------------------------------------
(* EntityExtractor._extract_entities_with_patterns *)

\* Offsets count characters from 0: the span (s, e) holds text[s+1..e].

Digits == {"0", "1", "2", "3", "4", "5", "6", "7", "8", "9"}

UpperSet == {UpperLetters[i] : i \in DOMAIN UpperLetters}

LowerSet == {LowerLetters[i] : i \in DOMAIN LowerLetters}

Letters == UpperSet \cup LowerSet

\* \w
WordChars == Letters \cup Digits \cup {"_"}

\* \s
SpaceChars == {" ", "\n", "\t"}

\* \b at offset p: a word character on exactly one side.
WordBoundary(text, p) ==
    LET before == p >= 1 /\ text[p] \in WordChars
        after == p < Len(text) /\ text[p + 1] \in WordChars
    IN  before # after

\* The characters of the span (a, b) are all of the class.
Run(text, a, b, chars) == \A i \in (a + 1)..b : text[i] \in chars

\* A greedy class*: the end of the longest run of the class from offset a.
RunEnd(text, a, chars) ==
    CHOOSE b \in a..Len(text) :
        /\ Run(text, a, b, chars)
        /\ (b = Len(text) \/ text[b + 1] \notin chars)

\* The literal is at offset a.
LiteralAt(text, a, literal) ==
    /\ a + Len(literal) <= Len(text)
    /\ SubSeq(text, a + 1, a + Len(literal)) = literal

\* Line 153: \b[A-Za-z0-9._%+-]+@[A-Za-z0-9.-]+\.[A-Z|a-z]{2,}\b matched at
\* offset s: the end of the match, or -1.  The local part runs to the first
\* "@"; the domain, greedy, ends at the last "." that a top-level part of
\* two or more characters and a word boundary can follow.
EmailEnd(text, s) ==
    LET local_chars == Letters \cup Digits \cup {".", "_", "%", "+", "-"}
        domain_chars == Letters \cup Digits \cup {".", "-"}
        tld_chars == Letters \cup {"|"}
        at == RunEnd(text, s, local_chars)
        Ends(dot) == {e \in (dot + 3)..Len(text) :
                         Run(text, dot + 1, e, tld_chars) /\ WordBoundary(text, e)}
        dots == {dot \in (at + 2)..(Len(text) - 1) :
                    /\ text[dot + 1] = "."
                    /\ Run(text, at + 1, dot, domain_chars)
                    /\ Ends(dot) # {}}
        last_dot == CHOOSE dot \in dots : \A d \in dots : d <= dot
    IN  IF /\ WordBoundary(text, s)
           /\ at > s
           /\ at < Len(text)
           /\ text[at + 1] = "@"
           /\ dots # {}
        THEN CHOOSE e \in Ends(last_dot) : \A x \in Ends(last_dot) : x <= e
        ELSE -1

\* Line 172: \b(?:PRJ|PROJECT|PROJ)-[A-Z0-9]{2,6}\b with re.IGNORECASE.
ProjectCodeEnd(text, s) ==
    LET prefixes == {<<"P", "R", "J", "-">>,
                     <<"P", "R", "O", "J", "E", "C", "T", "-">>,
                     <<"P", "R", "O", "J", "-">>}
        heads == {s + Len(prefix) : prefix \in
                     {x \in prefixes : LiteralAt(Upper(text), s, x)}}
        ends == {e \in s..Len(text) :
                    \E h \in heads :
                       /\ e >= h + 2
                       /\ e <= h + 6
                       /\ Run(text, h, e, Letters \cup Digits)
                       /\ WordBoundary(text, e)}
    IN  IF WordBoundary(text, s) /\ ends # {}
        THEN CHOOSE e \in ends : \A x \in ends : x <= e
        ELSE -1

\* Line 185: \b[A-Z][a-z]*[A-Z][a-z]*\b
CamelCaseEnd(text, s) ==
    LET l1 == RunEnd(text, s + 1, LowerSet)
        l2 == RunEnd(text, l1 + 1, LowerSet)
    IN  IF /\ WordBoundary(text, s)
           /\ s < Len(text) /\ text[s + 1] \in UpperSet
           /\ l1 < Len(text) /\ text[l1 + 1] \in UpperSet
           /\ WordBoundary(text, l2)
        THEN l2
        ELSE -1

\* Line 186: \b[A-Z]{2,}\b
AcronymEnd(text, s) ==
    LET u == RunEnd(text, s, UpperSet)
    IN  IF WordBoundary(text, s) /\ u >= s + 2 /\ WordBoundary(text, u)
        THEN u
        ELSE -1

\* Lines 187-189: \b\w+\s+<keyword>\b
KeywordEnd(text, s, keyword) ==
    LET w == RunEnd(text, s, WordChars)
        sp == RunEnd(text, w, SpaceChars)
    IN  IF /\ WordBoundary(text, s)
           /\ w > s
           /\ sp > w
           /\ LiteralAt(text, sp, keyword)
           /\ WordBoundary(text, sp + Len(keyword))
        THEN sp + Len(keyword)
        ELSE -1

\* The end of the match of the pattern at offset s, or -1.
MatchEnd(pattern, text, s) ==
    CASE pattern = "email" -> EmailEnd(text, s)
      [] pattern = "project_code" -> ProjectCodeEnd(text, s)
      [] pattern = "camel_case" -> CamelCaseEnd(text, s)
      [] pattern = "acronym" -> AcronymEnd(text, s)
      [] pattern = "api" -> KeywordEnd(text, s, <<"A", "P", "I">>)
      [] pattern = "service" ->
            KeywordEnd(text, s, <<"s", "e", "r", "v", "i", "c", "e">>)
      [] pattern = "platform" ->
            KeywordEnd(text, s, <<"p", "l", "a", "t", "f", "o", "r", "m">>)

\* re.findall(pattern, text) from offset pos on: the matched strings,
\* leftmost first, the scan resuming at the end of each match.
RECURSIVE FindAll(_, _, _)
FindAll(pattern, text, pos) ==
    LET starts == {s \in pos..(Len(text) - 1) : MatchEnd(pattern, text, s) >= 0}
        first == CHOOSE s \in starts : \A x \in starts : s <= x
        end == MatchEnd(pattern, text, first)
    IN  IF starts = {} THEN <<>>
        ELSE <<SubSeq(text, first + 1, end)>> \o FindAll(pattern, text, end)

\* str.split(): the words from index i on, in order.
RECURSIVE SplitFrom(_, _)
SplitFrom(str, i) ==
    IF i > Len(str) THEN <<>>
    ELSE IF IsSpace(str[i]) THEN SplitFrom(str, i + 1)
    ELSE LET end == RunEnd(str, i - 1, {c \in {str[k] : k \in DOMAIN str} : ~IsSpace(c)})
         IN  <<SubSeq(str, i, end)>> \o SplitFrom(str, end + 1)

\* ' '.join(parts)
RECURSIVE JoinWords(_)
JoinWords(parts) ==
    IF parts = <<>> THEN <<>>
    ELSE IF Len(parts) = 1 THEN parts[1]
    ELSE parts[1] \o <<" ">> \o JoinWords(Tail(parts))

\* str.title(): a letter that follows a letter is lowered, any other letter
\* is raised.
Title(str) ==
    [i \in DOMAIN str |->
        IF i > 1 /\ str[i - 1] \in Letters THEN LowerChar(str[i]) ELSE UpperChar(str[i])]

\* Lines 158-160: the parts of the name before the "@".
NameParts(email) ==
    LET at == CHOOSE i \in DOMAIN email : email[i] = "@" /\ \A k \in 1..(i - 1) : email[k] # "@"
        local == SubSeq(email, 1, at - 1)
        name_part == [i \in DOMAIN local |->
                         IF local[i] \in {".", "_", "-"} THEN " " ELSE local[i]]
    IN  SplitFrom(name_part, 1)

\* Lines 156-169: the PERSON entities of the e-mail addresses.
PersonsOfEmails(emails) ==
    LET named == SelectSeq(emails, LAMBDA email :
                    /\ Len(NameParts(email)) >= 2
                    /\ \A k \in DOMAIN NameParts(email) :
                          NameParts(email)[k][1] \in UpperSet)
    IN  [k \in DOMAIN named |->
            [text |-> Title(JoinWords(NameParts(named[k]))), type |-> "PERSON",
             relevance |-> 7, metadata |-> "email"]]

\* Lines 175-181: the PROJECT entities of the project codes.
ProjectsOfCodes(project_codes) ==
    [k \in DOMAIN project_codes |->
        [text |-> Upper(project_codes[k]), type |-> "PROJECT",
         relevance |-> 8, metadata |-> "is_code"]]

\* Lines 192-201: the TERM entities of one term pattern.
TermsOf(pattern, text) ==
    LET terms == SelectSeq(FindAll(pattern, text, 0), LAMBDA term : Len(term) > 3)
    IN  [k \in DOMAIN terms |->
            [text |-> terms[k], type |-> "TERM",
             relevance |-> 6, metadata |-> "pattern_matched"]]

\* EntityExtractor._extract_entities_with_patterns
ExtractEntitiesWithPatterns(text) ==
    PersonsOfEmails(FindAll("email", text, 0))
    \o ProjectsOfCodes(FindAll("project_code", text, 0))
    \o TermsOf("camel_case", text) \o TermsOf("acronym", text)
    \o TermsOf("api", text) \o TermsOf("service", text) \o TermsOf("platform", text)

-----------------------------------------------------------------------------
(* EntityExtractor.extract_relationships *)

\* A variant: the PROJECT comes before the PERSON.
EntityTypePriorityProjectFirst(entity_type) ==
    CASE entity_type = "PROJECT" -> 0
      [] entity_type = "PERSON" -> 1
      [] entity_type = "TERM" -> 2
      [] OTHER -> 99

\* _entity_type_priority, lines 430-440.
EntityTypePriority(entity_type) ==
    CASE entity_type = "PERSON" -> 0
      [] entity_type = "PROJECT" -> 1
      [] entity_type = "TERM" -> 2
      [] OTHER -> 99

\* EntityExtractor._infer_relationship_type
InferRelationshipType(entity1, entity2) ==
    LET swap == EntityTypePriority(entity2["type"]) < EntityTypePriority(entity1["type"])
        source == IF swap THEN entity2 ELSE entity1
        target == IF swap THEN entity1 ELSE entity2
        pair == <<source["type"], target["type"]>>
    IN  CASE pair = <<"PERSON", "PROJECT">> -> "WORKS_ON"
          [] pair = <<"PERSON", "TERM">> -> "EXPERTISE_IN"
          [] pair = <<"PROJECT", "TERM">> -> "USES"
          [] OTHER -> "RELATED_TO"

\* The entities _infer_relationship_type is called on: the three types of
\* the design and two it does not know.
TypedEntities ==
    {[text |-> t, type |-> type, entity_id |-> Uuid5(IdName(t, type))] :
        t \in {<<"a">>, <<"b">>, <<"c">>},
        type \in {"PERSON", "PROJECT", "TERM", "ORG", "DATE"}}

\* A caller calls _infer_relationship_type(entity1, entity2).
InferType(entity1, entity2) ==
    /\ last_call' = [op |-> "_infer_relationship_type",
                     args |-> <<entity1, entity2>>,
                     ret |-> InferRelationshipType(entity1, entity2)]
    /\ UNCHANGED <<entity_map, entity_id_map, index, relationship_map,
                   blob_index, local_index, blob_entities, blob_relationships,
                   uuid4_count, calls, inserted, effects, slots_before, rel_inserted>>

\* Lines 345-353: the relationship of a pair, its uuid4 not yet drawn.
RelationshipOf(entity1, entity2, proximity_score) ==
    [source_entity_id |-> entity1["entity_id"],
     target_entity_id |-> entity2["entity_id"],
     source_type |-> entity1["type"],
     target_type |-> entity2["type"],
     relationship_type |-> InferRelationshipType(entity1, entity2),
     confidence |-> proximity_score]

\* Lines 331-355: the pairs (i, j), i < j, in the order the loops meet them.
RECURSIVE PairsFrom(_, _, _)
PairsFrom(n, i, j) ==
    IF i > n THEN <<>>
    ELSE IF j > n THEN PairsFrom(n, i + 1, i + 2)
    ELSE <<(<<i, j>>)>> \o PairsFrom(n, i, j + 1)

\* A variant: pairs of one type are related too.
PairRelatedAnyType(entities, document_text, pair) ==
    CheckEntityProximity(entities[pair[1]]["text"], entities[pair[2]]["text"],
                         document_text, WindowSize) > 0

\* The pair gets a relationship: different types, proximity above 0.
PairRelated(entities, document_text, pair) ==
    /\ entities[pair[1]]["type"] # entities[pair[2]]["type"]
    /\ CheckEntityProximity(entities[pair[1]]["text"], entities[pair[2]]["text"],
                            document_text, WindowSize) > 0

\* EntityExtractor.extract_relationships, the ids drawn from uuid4 number
\* drawn + 1 on.
ExtractRelationships(entities, document_text, drawn) ==
    IF Len(entities) < 2 THEN <<>>
    ELSE LET pairs == SelectSeq(PairsFrom(Len(entities), 1, 2),
                                LAMBDA pair : PairRelated(entities, document_text, pair))
         IN  [k \in DOMAIN pairs |->
                With(RelationshipOf(
                        entities[pairs[k][1]], entities[pairs[k][2]],
                        CheckEntityProximity(entities[pairs[k][1]]["text"],
                                             entities[pairs[k][2]]["text"],
                                             document_text, WindowSize)),
                     "relationship_id", Uuid4(drawn + k))]

-----------------------------------------------------------------------------
(* The extractor on its own. *)

\* What the generative model may return for a window: relevance in tenths.
ModelItems ==
    {[text |-> <<"a">>, type |-> "PERSON", relevance |-> 9],
     [text |-> <<"b">>, type |-> "PROJECT", relevance |-> 8],
     [text |-> <<"A">>, type |-> "PERSON", relevance |-> 6],
     [text |-> <<"a">>],
     [not_a_dict |-> TRUE]}

ModelReplies ==
    {[kind |-> k, items |-> <<>>] : k \in {"error", "invalid_json", "not_list", "list"}}
    \cup {[kind |-> "list", items |-> <<x>>] : x \in ModelItems}
    \cup {[kind |-> "list", items |-> <<x, y>>] : x \in ModelItems, y \in ModelItems}

\* What the patterns may find in a text.
PatternResults ==
    {<<>>,
     <<[text |-> <<"a">>, type |-> "PERSON", relevance |-> 7, metadata |-> "email"]>>,
     <<[text |-> <<"b">>, type |-> "PROJECT", relevance |-> 8, metadata |-> "is_code"],
       [text |-> <<"a">>, type |-> "PERSON", relevance |-> 7, metadata |-> "email"]>>}

ExtractTexts == {<<"a", "b">>, <<"b", " ", " ", "A">>}

\* The documents handed to the extractor, with what its collaborators do.
ExtractDocs ==
    UNION {
        {[text |-> t, document_id |-> "d1", replies |-> r,
          pattern_entities |-> p, embedding_fails |-> f] :
            r \in [1..Len(ChunkText(t, ChunkLength)) -> ModelReplies],
            p \in PatternResults, f \in BOOLEAN}
        : t \in ExtractTexts}

ExtractInit ==
    /\ doc = [text |-> <<>>, document_id |-> "", replies |-> <<>>,
              pattern_entities |-> <<>>, embedding_fails |-> FALSE]
    /\ extract_state = "idle"
    /\ ai_entities = <<>>
    /\ extracted = <<>>
    /\ infer_state = "idle"
    /\ inferred = <<>>

\* extract_entities_from_document(document_content, document_id)
ExtractEntitiesFromDocument(d) ==
    /\ extract_state = "idle"
    /\ LET out == ExtractOutcome(d)
       IN  /\ extract_state' = out.state
           /\ ai_entities' = out.ai
           /\ extracted' = out.entities
    /\ doc' = d
    /\ UNCHANGED <<infer_state, inferred>>

\* extract_relationships(entities, document_text) on the extracted entities
InferRelationships ==
    /\ extract_state = "returned"
    /\ infer_state = "idle"
    /\ inferred' = ExtractRelationships(extracted, doc.text, uuid4_count)
    /\ infer_state' = "returned"
    /\ UNCHANGED <<doc, extract_state, ai_entities, extracted>>

\* The documents whose extraction returns: one window, the embedding model
\* answers.
IdDocs ==
    {d \in ExtractDocs : d.text = <<"a", "b">> /\ ~d.embedding_fails}

\* Entities that reach the store without an id: relevance in tenths.
IdPool ==
    {[text |-> tt[1], type |-> tt[2], relevance |-> rd[1],
      source_documents |-> {rd[2]}] :
        tt \in {<<(<<"a">>), "PERSON">>, <<(<<"A">>), "PERSON">>,
                <<(<<"b">>), "PROJECT">>},
        rd \in {<<3, "d1">>, <<9, "d2">>}}

\* A note that names a person by an e-mail address and a project.
TextContact ==
    <<"C", "o", "n", "t", "a", "c", "t", " ">>

EmailLower ==
    <<"j", "o", "h", "n", ".", "s", "m", "i", "t", "h", "@", "e", "x",
      "a", "m", "p", "l", "e", ".", "c", "o", "m">>

EmailCapital ==
    <<"J", "o", "h", "n", ".", "S", "m", "i", "t", "h", "@", "e", "x",
      "a", "m", "p", "l", "e", ".", "c", "o", "m">>

EmailShort ==
    <<"j", "s", "m", "i", "t", "h", "@", "e", "x", "a", "m", "p", "l",
      "e", ".", "c", "o", "m">>

TextAbout ==
    <<" ", "a", "b", "o", "u", "t", " ">>

ProjectName ==
    <<"P", "r", "o", "j", "e", "c", "t", " ", "A", "l", "p", "h", "a">>

ProjectCode ==
    <<"P", "R", "J", "-", "1", "2", "3">>

TextTail ==
    <<" ", "i", "n", "i", "t", "i", "a", "t", "i", "v", "e", " ", "t",
      "i", "m", "e", "l", "i", "n", "e", ".">>

PersonName ==
    <<"J", "o", "h", "n", " ", "S", "m", "i", "t", "h">>

ExampleText == TextContact \o EmailLower \o TextAbout \o ProjectName \o TextTail

ExampleTexts ==
    {TextContact \o email \o TextAbout \o project \o TextTail :
        email \in {EmailLower, EmailCapital, EmailShort},
        project \in {ProjectName, ProjectCode}}

\* What the generative model may reply on such a note: nothing usable, or
\* the person and the project by their names.
ExampleReplies ==
    LET person == [text |-> PersonName, type |-> "PERSON", relevance |-> 9]
        project == [text |-> ProjectName, type |-> "PROJECT", relevance |-> 8]
    IN  {[kind |-> k, items |-> <<>>] : k \in {"error", "invalid_json", "list"}}
        \cup {[kind |-> "list", items |-> items] :
                 items \in {<<person>>, <<project>>, <<person, project>>,
                            <<project, person>>}}

\* The notes handed to the extractor: the model names the entities in its
\* reply for the first window and returns an empty array for the others;
\* the patterns find what _extract_entities_with_patterns finds.
ExampleDocs ==
    {[text |-> text, document_id |-> "d1",
      replies |-> [k \in 1..Len(ChunkText(text, ChunkLength)) |->
                      IF k = 1 THEN reply ELSE [kind |-> "list", items |-> <<>>]],
      pattern_entities |-> ExtractEntitiesWithPatterns(text),
      embedding_fails |-> f] :
        text \in ExampleTexts, reply \in ExampleReplies, f \in BOOLEAN}

\* Documents whose candidates share keys: the model names the person in two
\* spellings and relevances, the project with the relevance of the pattern
\* result or with none, and the patterns find none, one or both.
CombineItems ==
    {[text |-> <<"a">>, type |-> "PERSON", relevance |-> 9],
     [text |-> <<"A">>, type |-> "PERSON", relevance |-> 6],
     [text |-> <<"a">>, type |-> "PERSON", relevance |-> 7],
     [text |-> <<"b">>, type |-> "PROJECT", relevance |-> 8],
     [text |-> <<"b">>, type |-> "PROJECT"]}

CombineReplies ==
    {[kind |-> "list", items |-> <<>>]}
    \cup {[kind |-> "list", items |-> <<x>>] : x \in CombineItems}
    \cup {[kind |-> "list", items |-> <<x, y>>] : x \in CombineItems, y \in CombineItems}

CombineDocs ==
    {[text |-> <<"a", "b">>, document_id |-> "d1",
      replies |-> [k \in 1..Len(ChunkText(<<"a", "b">>, ChunkLength)) |->
                      IF k = 1 THEN reply ELSE [kind |-> "list", items |-> <<>>]],
      pattern_entities |-> p, embedding_fails |-> FALSE] :
        reply \in CombineReplies, p \in PatternResults}

-----------------------------------------------------------------------------
(* Proximity on its own. *)

\* n characters that belong to no entity text.
Fill(n) == [i \in 1..n |-> "."]

\* Document texts: a head, a run of other characters, a tail.
ProxTexts ==
    {head \o Fill(n) \o tail :
        head \in {<<>>, <<"a">>, <<"a", "a", "a">>, <<"A", "b">>},
        n \in {0, 1, WindowSize - 1, WindowSize, WindowSize + 1},
        tail \in {<<>>, <<"b">>, <<"a", "b">>, <<"B">>}}

ProxInit ==
    /\ prox_args = [entity1_text |-> <<>>, entity2_text |-> <<>>, document_text |-> <<>>]
    /\ prox_score = -1

\* The entities extract gives for a PERSON and a PROJECT of these texts.
ProxEntities(entity1_text, entity2_text, document_text) ==
    EnrichEntities(<<[text |-> entity1_text, type |-> "PERSON", relevance |-> 9],
                     [text |-> entity2_text, type |-> "PROJECT", relevance |-> 8]>>,
                   document_text, "d1")

\* extract_relationships on a PERSON and a PROJECT, which calls
\* _check_entity_proximity(entity1_text, entity2_text, document_text).
Proximity(entity1_text, entity2_text, document_text) ==
    /\ prox_score = -1
    /\ prox_args' = [entity1_text |-> entity1_text, entity2_text |-> entity2_text,
                     document_text |-> document_text]
    /\ prox_score' = CheckEntityProximity(entity1_text, entity2_text, document_text,
                                          WindowSize)
    /\ extracted' = ProxEntities(entity1_text, entity2_text, document_text)
    /\ inferred' = ExtractRelationships(extracted', document_text, uuid4_count)
    /\ uuid4_count' = uuid4_count + Len(inferred')
    /\ doc' = [doc EXCEPT !.text = document_text, !.document_id = "d1"]
    /\ extract_state' = "returned"
    /\ infer_state' = "returned"
    /\ UNCHANGED <<ai_entities, entity_map, entity_id_map, index, relationship_map,
                   blob_index, local_index, blob_entities, blob_relationships,
                   calls, last_call, inserted, effects, slots_before, rel_inserted>>
    /\ UNCHANGED search_vars

-----------------------------------------------------------------------------
(* extract_relationships on its own. *)

\* Entities as extract returns them: two spellings of one PERSON, a PROJECT,
\* a PERSON of the PROJECT's text, a TERM.
InferPool ==
    {With(e, "entity_id", EnrichEntityId(e)) :
        e \in {[text |-> <<"a">>, type |-> "PERSON"],
               [text |-> <<"A">>, type |-> "PERSON"],
               [text |-> <<"b">>, type |-> "PROJECT"],
               [text |-> <<"b">>, type |-> "PERSON"],
               [text |-> <<"c">>, type |-> "TERM"]}}

\* The lists a caller passes: up to three entities, repeats included.
InferLists ==
    UNION {[1..n -> InferPool] : n \in 0..3}

\* Document texts: the texts next to each other, apart, too far apart, one
\* or two of them missing.
InferTexts ==
    {<<"a", "b">>, <<"b", "A", "c">>, <<"a", "c">>, <<"c">>, <<".">>,
     <<"a">> \o Fill(WindowSize - 1) \o <<"b">>,
     <<"a">> \o Fill(WindowSize) \o <<"b", "c">>}

\* extract_relationships(entities, document_text)
InferOn(entities, document_text) ==
    /\ infer_state = "idle"
    /\ extract_state = "idle"
    /\ inferred' = ExtractRelationships(entities, document_text, uuid4_count)
    /\ uuid4_count' = uuid4_count + Len(inferred')
    /\ extracted' = entities
    /\ doc' = [doc EXCEPT !.text = document_text]
    /\ infer_state' = "returned"
    /\ UNCHANGED <<extract_state, ai_entities>>
    /\ UNCHANGED <<entity_map, entity_id_map, index, relationship_map,
                   blob_index, local_index, blob_entities, blob_relationships,
                   calls, last_call, inserted, effects, slots_before, rel_inserted>>

-----------------------------------------------------------------------------
(* KnowledgeStore.search_entities, text mode *)

\* Similarity is held in units of 1/60: every Jaccard quotient of word sets
\* whose union has at most 6 words is a whole number of them.
SimilarityScale == 60

\* A variant: containment counts only when the query lies in the entity text.
MatchScoreQueryInText(query_lower, entity_text) ==
    IF query_lower = entity_text THEN SimilarityScale
    ELSE IF IsSubstring(query_lower, entity_text)
    THEN (8 * SimilarityScale) \div 10
    ELSE LET query_words == Words(query_lower)
             entity_words == Words(entity_text)
         IN  IF query_words # {} /\ entity_words # {}
             THEN (Cardinality(query_words \cap entity_words) * SimilarityScale)
                      \div Cardinality(query_words \cup entity_words)
             ELSE 0

\* Lines 375-392: the match score of an entity text for a query.
MatchScore(query_lower, entity_text) ==
    IF query_lower = entity_text THEN SimilarityScale
    ELSE IF IsSubstring(query_lower, entity_text) \/ IsSubstring(entity_text, query_lower)
    THEN (8 * SimilarityScale) \div 10
    ELSE LET query_words == Words(query_lower)
             entity_words == Words(entity_text)
         IN  IF query_words # {} /\ entity_words # {}
             THEN (Cardinality(query_words \cap entity_words) * SimilarityScale)
                      \div Cardinality(query_words \cup entity_words)
             ELSE 0

\* Lines 367-397: the entities that pass the type filter and the threshold
\* of 0.1, in the order of entity_map, each with its similarity.
TextMatches(emap, query_text, entity_type) ==
    LET query_lower == Lower(query_text)
        Score(p) == MatchScore(query_lower, Lower(p.v["text"]))
        kept == SelectSeq(emap, LAMBDA p :
                    /\ (entity_type = None \/ p.v["type"] = entity_type)
                    /\ 10 * Score(p) > SimilarityScale)
    IN  [k \in DOMAIN kept |-> With(kept[k].v, "similarity", Score(kept[k]))]

\* KnowledgeStore._search_by_text
SearchByText(emap, query_text, entity_type, top_k) ==
    LET matches == TextMatches(emap, query_text, entity_type)
        sorted == SortDescending(matches,
                                 [k \in DOMAIN matches |-> matches[k]["similarity"]])
    IN  SubSeq(sorted, 1, Min(top_k, Len(sorted)))

SearchInit ==
    /\ search_args = [query_text |-> None, entity_type |-> None, top_k |-> 0]
    /\ results = <<>>

\* search_entities(query_text=query_text, entity_type=entity_type, top_k=top_k)
SearchEntitiesByText(query_text, entity_type, top_k) ==
    /\ search_args' = [query_text |-> query_text, entity_type |-> entity_type,
                       top_k |-> top_k]
    /\ results' = SearchByText(entity_map, query_text, entity_type, top_k)
    /\ last_call' = [op |-> "search_entities", args |-> <<query_text, entity_type, top_k>>,
                     ret |-> results']
    /\ UNCHANGED <<entity_map, entity_id_map, index, relationship_map,
                   blob_index, local_index, blob_entities, blob_relationships,
                   uuid4_count, calls, inserted, effects, slots_before, rel_inserted>>

\* The entities searched: texts of one or two words.
SearchTexts ==
    {<<"a", " ", "b">>, <<"b", " ", "a">>, <<"A", " ", "B">>, <<"a">>}

SearchPool ==
    {[text |-> t, type |-> "PERSON", relevance |-> 7, source_documents |-> {"d1"}] :
        t \in SearchTexts}
    \cup {[text |-> <<"a", " ", "b">>, type |-> "PROJECT", relevance |-> 7,
           source_documents |-> {"d1"}]}

SearchQueries == {<<"a", " ", "b">>, <<"A", " ", "b">>, <<"b">>, <<"b", " ", "c">>}

-----------------------------------------------------------------------------
(* KnowledgeStore.search_entities, vector mode *)

\* Vectors the index holds over one run of the vector search.
MaxVectors == 4

\* The squared L2 distance IndexFlatL2 reports; a vector is one number.
Distance2(vector, query_vector) == (vector - query_vector) * (vector - query_vector)

\* The orders in which index.search may report all positions (from 0):
\* non-decreasing distance, positions at the same distance in any order.
NearestOrders(idx, query_vector) ==
    {order \in [1..Len(idx) -> 0..(Len(idx) - 1)] :
        /\ \A a, b \in 1..Len(idx) : a # b => order[a] # order[b]
        /\ \A a, b \in 1..Len(idx) :
              a < b => Distance2(idx[order[a] + 1], query_vector)
                          <= Distance2(idx[order[b] + 1], query_vector)}

\* index.search(query_vector, k), line 303: the k nearest positions, -1 in
\* the places for which the index has no vector.
IndexSearch(idx, query_vector, k) ==
    {[c \in 1..k |-> IF c <= Len(idx) THEN order[c] ELSE -1] :
        order \in NearestOrders(idx, query_vector)}

\* Lines 314-319: some key of entity_id_map has the slot idx.
HasSlot(id_map, idx) == \E i \in DOMAIN id_map : id_map[i].v = idx

\* Lines 314-317: the first key of entity_id_map whose slot is idx.
FoundKey(id_map, idx) ==
    IF HasSlot(id_map, idx)
    THEN id_map[CHOOSE i \in DOMAIN id_map :
                    /\ id_map[i].v = idx
                    /\ \A j \in DOMAIN id_map : id_map[j].v = idx => i <= j].k
    ELSE None

\* Lines 327-333: some entity of entity_map has the text and type of the key.
HasEntity(emap, key) == \E i \in DOMAIN emap : EntityKey(emap[i].v) = key

\* Lines 327-331: the first entity of entity_map with the text and type of
\* the key.
FoundEntity(emap, key) ==
    IF HasEntity(emap, key)
    THEN emap[CHOOSE i \in DOMAIN emap :
                 /\ EntityKey(emap[i].v) = key
                 /\ \A j \in DOMAIN emap : EntityKey(emap[j].v) = key => i <= j].v
    ELSE None

\* Line 335: similarity = 1.0 / (1.0 + distance), in units of
\* 1/SimilarityScale.
VectorSimilarity(distance) == SimilarityScale \div (1 + distance)

\* Lines 308-342: the loop over the candidates, from candidate i on; it
\* ends at the first moment top_k results are collected.
RECURSIVE VectorLoop(_, _, _, _, _, _, _, _, _)
VectorLoop(found, candidates, i, idx, id_map, emap, query_vector, entity_type, top_k) ==
    IF i > Len(candidates) THEN found
    ELSE LET position == candidates[i]
             key == FoundKey(id_map, position)
             skipped == \/ position = -1
                        \/ ~HasSlot(id_map, position)
                        \/ (entity_type # None /\ key[2] # entity_type)
                        \/ ~HasEntity(emap, key)
             collected ==
                 IF skipped THEN found
                 ELSE Append(found,
                             With(FoundEntity(emap, key), "similarity",
                                  VectorSimilarity(Distance2(idx[position + 1],
                                                             query_vector))))
         IN  IF collected # found /\ Len(collected) >= top_k THEN collected
             ELSE VectorLoop(collected, candidates, i + 1, idx, id_map, emap,
                             query_vector, entity_type, top_k)

\* A variant: the loop runs over every candidate.
SearchByVectorNoStop(candidates, idx, id_map, emap, query_vector, entity_type, top_k) ==
    IF Len(idx) = 0 THEN <<>>
    ELSE VectorLoop(<<>>, candidates, 1, idx, id_map, emap, query_vector,
                    entity_type, Len(candidates) + 1)

\* KnowledgeStore._search_by_vector, lines 280-344, when index.search
\* reported candidates.
SearchByVector(candidates, idx, id_map, emap, query_vector, entity_type, top_k) ==
    IF Len(idx) = 0 THEN <<>>
    ELSE VectorLoop(<<>>, candidates, 1, idx, id_map, emap, query_vector,
                    entity_type, top_k)

\* search_entities(query_embedding=query_embedding, entity_type=entity_type,
\* top_k=top_k), lines 270-275; candidates is what index.search reports.
SearchEntitiesByVector(query_embedding, entity_type, top_k, candidates) ==
    /\ search_args' = [query_embedding |-> query_embedding,
                       entity_type |-> entity_type, top_k |-> top_k,
                       candidates |-> IF Len(index) = 0 THEN <<>> ELSE candidates]
    /\ results' = SearchByVector(candidates, index, entity_id_map, entity_map,
                                 query_embedding, entity_type, top_k)
    /\ last_call' = [op |-> "search_by_vector",
                     args |-> <<query_embedding, entity_type, top_k>>,
                     ret |-> results']
    /\ UNCHANGED <<entity_map, entity_id_map, index, relationship_map,
                   blob_index, local_index, blob_entities, blob_relationships,
                   uuid4_count, calls, inserted, effects, slots_before, rel_inserted>>

\* The entities searched by vector: five keys of two types, two of them at
\* the same place, one without embedding.
VectorPool ==
    {[text |-> <<"a">>, type |-> "PERSON", relevance |-> 7,
      source_documents |-> {"d1"}, embedding |-> 1],
     [text |-> <<"b">>, type |-> "PROJECT", relevance |-> 7,
      source_documents |-> {"d1"}, embedding |-> 2],
     [text |-> <<"c">>, type |-> "PERSON", relevance |-> 7,
      source_documents |-> {"d1"}, embedding |-> 4],
     [text |-> <<"d">>, type |-> "PROJECT", relevance |-> 7,
      source_documents |-> {"d1"}, embedding |-> 4],
     [text |-> <<"e">>, type |-> "PERSON", relevance |-> 7,
      source_documents |-> {"d1"}]}

\* The lists one add_entities call receives before the searches: entities
\* of different keys, as many as the index may hold vectors.
VectorBatches ==
    {batch \in [1..MaxVectors -> VectorPool] :
        \A i, j \in 1..MaxVectors : i # j => batch[i] # batch[j]}

\* A caller fills the store with one add_entities call.
AddEntityBatch(entities) ==
    /\ entity_map = <<>>
    /\ AddEntitiesUpdate(entities)
    /\ last_call' = [op |-> "add_entities", args |-> entities,
                     ret |-> AddEntitiesReturn(entities)]
    /\ calls' = calls + Len(entities)
    /\ UNCHANGED <<relationship_map, blob_relationships, uuid4_count, slots_before,
                   rel_inserted>>

VectorQueries == {1, 4}

-----------------------------------------------------------------------------
(* KnowledgeProcessor.process_all_documents *)

\* Blobs one listing of the input bucket holds.
MaxDocs == 3

\* blob.name.endswith(".json"): a name is a sequence of parts, its
\* extension last.
EndsWithJson(name) == name # <<>> /\ name[Len(name)] = ".json"

\* Line 118: document_path = f"gs://{self.input_bucket}/{blob.name}".
DocumentPath(blob) == <<"gs://", "input_bucket", "/">> \o blob.name

\* _load_document, lines 150-200, returns nothing usable: the download or
\* the JSON parse raised (it returns None), or the text is empty; line 66,
\* `if not document_content`.
NotDocumentContent(blob) == blob.download_fails \/ blob.text = <<>>

\* The output bucket refuses the uploads made while this document is
\* handled: blob.upload_from_filename / upload_from_string raise.
UploadFails(blob) == Get(blob, "upload_fails", FALSE)

\* The document process_document hands the extractor, lines 70-72.
DocumentOf(blob) ==
    [text |-> blob.text, document_id |-> DocumentPath(blob),
     replies |-> blob.replies, pattern_entities |-> blob.pattern_entities,
     embedding_fails |-> blob.embedding_fails]

\* process_document(document_path), lines 52-94, up to the store calls: it
\* returns {"error": ...} without raising when the document does not load,
\* an exception of the extractor propagates, and otherwise the entities and
\* the relationships (ids drawn from uuid4 number drawn + 1 on) are found.
ProcessDocumentOutcome(blob, drawn) ==
    IF NotDocumentContent(blob)
    THEN [kind |-> "error_result", entities |-> <<>>, relationships |-> <<>>]
    ELSE LET out == ExtractOutcome(DocumentOf(blob))
         IN  IF out.state = "raised"
             THEN [kind |-> "raised", entities |-> <<>>, relationships |-> <<>>]
             ELSE [kind |-> "result", entities |-> out.entities,
                   relationships |->
                       ExtractRelationships(out.entities, blob.text, drawn)]

\* What a blob of the listing may be: a document the extractor handles, one
\* whose entities the patterns alone find, one that does not load, one on
\* which the embedding model fails, and one that is not JSON.
BlobKinds ==
    LET good == [ext |-> ".json", download_fails |-> FALSE, text |-> <<"a", "b">>,
                 replies |-> <<[kind |-> "list",
                                items |-> <<[text |-> <<"a">>, type |-> "PERSON",
                                             relevance |-> 9]>>]>>,
                 pattern_entities |->
                     <<[text |-> <<"b">>, type |-> "PROJECT", relevance |-> 8,
                        metadata |-> "is_code"]>>,
                 embedding_fails |-> FALSE]
    IN  {good,
         [good EXCEPT !.replies = <<[kind |-> "invalid_json", items |-> <<>>]>>,
                      !.pattern_entities =
                          <<[text |-> <<"b">>, type |-> "PROJECT", relevance |-> 8,
                             metadata |-> "is_code"],
                            [text |-> <<"a">>, type |-> "PERSON", relevance |-> 7,
                             metadata |-> "email"]>>],
         [good EXCEPT !.download_fails = TRUE],
         [good EXCEPT !.embedding_fails = TRUE],
         [good EXCEPT !.ext = ".txt"]}

\* The listings of the input bucket: blob i is named processed/i<ext>.
Listings ==
    UNION {{[i \in 1..n |->
                [name |-> <<"processed/", i, kinds[i].ext>>,
                 download_fails |-> kinds[i].download_fails,
                 text |-> kinds[i].text,
                 replies |-> kinds[i].replies,
                 pattern_entities |-> kinds[i].pattern_entities,
                 embedding_fails |-> kinds[i].embedding_fails]] :
            kinds \in [1..n -> BlobKinds]} : n \in 1..MaxDocs}

\* Blobs of a bucket whose uploads may fail: documents in which a person and
\* a project are found, or a project alone, or nothing, each handled while
\* the output bucket takes the uploads or refuses them.
UploadKinds ==
    LET found == [ext |-> ".json", download_fails |-> FALSE, text |-> <<"a", "b">>,
                  replies |-> <<[kind |-> "list",
                                 items |-> <<[text |-> <<"a">>, type |-> "PERSON",
                                              relevance |-> 9]>>]>>,
                  pattern_entities |->
                      <<[text |-> <<"b">>, type |-> "PROJECT", relevance |-> 8,
                         metadata |-> "is_code"]>>,
                  embedding_fails |-> FALSE]
        texts == {found,
                  [found EXCEPT !.replies = <<[kind |-> "list", items |-> <<>>]>>],
                  [found EXCEPT !.replies = <<[kind |-> "list", items |-> <<>>]>>,
                                !.pattern_entities = <<>>]}
    IN  {With(kind, "upload_fails", fails) : kind \in texts, fails \in BOOLEAN}

UploadListings ==
    UNION {{[i \in 1..n |-> With([f \in DOMAIN kinds[i] \ {"ext"} |-> kinds[i][f]],
                                 "name", <<"processed/", i, kinds[i].ext>>)] :
            kinds \in [1..n -> UploadKinds]} : n \in 1..MaxDocs}

\* Before process_all_documents is called.
BatchInit ==
    /\ input_blobs = <<>>
    /\ batch_state = "idle"
    /\ batch_pos = 0
    /\ processed_count = 0
    /\ entity_count = 0
    /\ relationship_count = 0
    /\ errors = <<>>
    /\ outcomes = <<>>
    /\ doc_events = <<>>
    /\ result_blobs = {}
    /\ summary = [documents_processed |-> 0, entity_count |-> 0,
                  relationship_count |-> 0, errors |-> <<>>]

\* Documents on which the generative model scores a person, or a person and
\* a project, with relevance values of its own choosing (in tenths): below
\* 0, inside [0,1] and above 1.
ModelRelevances == {-1, 5, 15}

RelevanceReplies ==
    {<<[text |-> <<"a">>, type |-> "PERSON", relevance |-> r]>> :
        r \in ModelRelevances}
    \cup {<<[text |-> <<"a">>, type |-> "PERSON", relevance |-> r1],
            [text |-> <<"b">>, type |-> "PROJECT", relevance |-> r2]>> :
            r1 \in ModelRelevances, r2 \in ModelRelevances}

RelevanceBlobs ==
    {[name |-> <<"processed/", 1, ".json">>, download_fails |-> FALSE,
      text |-> <<"a", "b">>, replies |-> <<[kind |-> "list", items |-> items]>>,
      pattern_entities |-> <<>>, embedding_fails |-> FALSE] :
        items \in RelevanceReplies}

\* process_all_documents, lines 105-113: list the bucket, zero the counters.
ListBlobs(listing) ==
    /\ batch_state = "idle"
    /\ input_blobs' = listing
    /\ batch_state' = "running"
    /\ processed_count' = 0
    /\ entity_count' = 0
    /\ relationship_count' = 0
    /\ errors' = <<>>
    /\ UNCHANGED <<batch_pos, outcomes, doc_events, result_blobs, summary>>
    /\ UNCHANGED store_vars

\* process_document, lines 78-94, once the entities and the relationships
\* are found: add_entities, add_relationships, then the result is saved
\* and returned.
ProcessDocumentStore(blob, out) ==
    /\ AddEntitiesUpdate(out.entities)
    /\ AddRelationshipsUpdate(out.relationships,
                              uuid4_count + Len(out.relationships))
    /\ result_blobs' = result_blobs \cup {DocumentPath(blob)}
    /\ last_call' = [op |-> "process_document",
                     args |-> DocumentPath(blob),
                     ret |-> [entity_count |-> Len(out.entities),
                              relationship_count |-> Len(out.relationships)]]
    /\ UNCHANGED slots_before

\* process_document, lines 78-92, when the bucket refuses the uploads.  With
\* no entity found, add_entities and add_relationships return at once
\* (lines 132-133, 217-218) and the upload of the result raises (line 248 of
\* knowledge_processor.py).  Otherwise add_entities runs its loop (lines
\* 139-187), adds the vectors to the index (lines 190-198), writes the local
\* index file (line 114) and raises at the upload of the index (line 120);
\* with no vector to add it raises at the upload of the first entity (line
\* 204).  The relationship ids were drawn at line 75.
ProcessDocumentInterrupted(blob, out) ==
    /\ LET st == AddEntitiesResult(entity_map, entity_id_map, out.entities)
           updated == st.vectors_to_add # <<>>
           idx == IF updated THEN IndexAdd(index, st.vectors_to_add) ELSE index
       IN  IF out.entities = <<>>
           THEN UNCHANGED <<entity_map, entity_id_map, index, local_index, effects>>
           ELSE /\ entity_map' = st.entity_map
                /\ entity_id_map' = st.entity_id_map
                /\ index' = idx
                /\ local_index' = IF updated THEN SaveIndexToStorage(idx, local_index)
                                  ELSE local_index
                /\ effects' = [j \in DOMAIN st.entities |-> "entity_map"]
                                 \o (IF updated THEN <<"index.add">> ELSE <<>>)
    /\ uuid4_count' = uuid4_count + Len(out.relationships)
    /\ last_call' = [op |-> "process_document", args |-> DocumentPath(blob),
                     ret |-> "raised"]
    /\ UNCHANGED <<relationship_map, blob_index, blob_entities, blob_relationships,
                   inserted, slots_before, rel_inserted>>

\* A caller calls process_document(document_path) on a blob of the bucket.
ProcessDocument(blob) ==
    /\ calls < MaxInserts
    /\ calls' = calls + 1
    /\ LET out == ProcessDocumentOutcome(blob, uuid4_count)
       IN  IF out.kind = "result" /\ UploadFails(blob)
           THEN /\ ProcessDocumentInterrupted(blob, out)
                /\ UNCHANGED result_blobs
           ELSE IF out.kind = "result"
           THEN ProcessDocumentStore(blob, out)
           ELSE /\ last_call' = [op |-> "process_document",
                                 args |-> DocumentPath(blob), ret |-> out.kind]
                /\ UNCHANGED <<entity_map, entity_id_map, index, relationship_map,
                               blob_index, local_index, blob_entities,
                               blob_relationships, uuid4_count, inserted,
                               effects, slots_before, rel_inserted, result_blobs>>
    /\ UNCHANGED <<input_blobs, batch_state, batch_pos, processed_count,
                   entity_count, relationship_count, errors, outcomes,
                   doc_events, summary>>

\* The blobs process_document is called on.
ProcessDocuments == {listing[1] : listing \in {l \in Listings : Len(l) = 1}}

\* The steps one iteration of the loop takes on a blob, in the order of the
\* statements: the blob is listed (line 115); process_document loads it
\* (line 64) and returns at once when nothing was loaded (lines 66-67);
\* extraction and inference run (lines 70-75) and an exception of theirs
\* leaves process_document for the handler of line 125; add_entities
\* (line 78), add_relationships (line 79) and the saving of the result
\* (line 92) follow; an upload that raises in one of them leaves
\* process_document for the same handler.
DocumentSteps(blob, out) ==
    IF ~EndsWithJson(blob.name) THEN <<"Discovered">>
    ELSE IF out.kind = "error_result" THEN <<"Discovered", "LoadFailed">>
    ELSE IF out.kind = "raised" THEN <<"Discovered", "Loaded", "Failed">>
    ELSE IF UploadFails(blob) /\ out.entities # <<>>
    THEN <<"Discovered", "Loaded", "Extracted", "add_entities", "Failed">>
    ELSE IF UploadFails(blob)
    THEN <<"Discovered", "Loaded", "Extracted", "add_entities",
           "add_relationships", "Failed">>
    ELSE <<"Discovered", "Loaded", "Extracted", "add_entities",
           "add_relationships", "Summarized">>

\* process_all_documents, lines 115-128: one iteration of the loop, the
\* whole of process_document included.
ProcessBlob ==
    /\ batch_state = "running"
    /\ batch_pos < Len(input_blobs)
    /\ batch_pos' = batch_pos + 1
    /\ doc_events' = Append(doc_events,
                            DocumentSteps(input_blobs[batch_pos + 1],
                                ProcessDocumentOutcome(input_blobs[batch_pos + 1],
                                                       uuid4_count)))
    /\ LET blob == input_blobs[batch_pos + 1]
           drawn == uuid4_count
           out == ProcessDocumentOutcome(blob, drawn)
       IN  IF ~EndsWithJson(blob.name)
           THEN /\ outcomes' = Append(outcomes, "skipped")
                /\ UNCHANGED <<processed_count, entity_count, relationship_count,
                               errors, result_blobs>>
                /\ UNCHANGED store_vars
           ELSE IF out.kind = "raised"
           THEN /\ outcomes' = Append(outcomes, "raised")
                /\ errors' = Append(errors, [blob |-> blob.name,
                                             error |-> "embedding model"])
                /\ UNCHANGED <<processed_count, entity_count, relationship_count,
                               result_blobs>>
                /\ UNCHANGED store_vars
           ELSE IF out.kind = "error_result"
           THEN \* result = {"error": ...}: result.get("entity_count", 0) is 0
                /\ outcomes' = Append(outcomes, "error_result")
                /\ processed_count' = processed_count + 1
                /\ entity_count' = entity_count + 0
                /\ relationship_count' = relationship_count + 0
                /\ UNCHANGED <<errors, result_blobs>>
                /\ UNCHANGED store_vars
           ELSE IF UploadFails(blob)
           THEN /\ outcomes' = Append(outcomes, "raised")
                /\ errors' = Append(errors, [blob |-> blob.name,
                                             error |-> "upload"])
                /\ ProcessDocumentInterrupted(blob, out)
                /\ UNCHANGED <<processed_count, entity_count, relationship_count,
                               result_blobs, calls>>
           ELSE /\ outcomes' = Append(outcomes, "result")
                /\ ProcessDocumentStore(blob, out)
                /\ processed_count' = processed_count + 1
                /\ entity_count' = entity_count + Len(out.entities)
                /\ relationship_count' = relationship_count + Len(out.relationships)
                /\ UNCHANGED <<errors, calls>>
    /\ UNCHANGED <<input_blobs, batch_state, summary>>

\* process_all_documents, lines 130-148: the summary, saved and returned.
ReturnSummary ==
    /\ batch_state = "running"
    /\ batch_pos = Len(input_blobs)
    /\ summary' = [documents_processed |-> processed_count,
                   entity_count |-> entity_count,
                   relationship_count |-> relationship_count,
                   errors |-> errors]
    /\ batch_state' = "done"
    /\ UNCHANGED <<input_blobs, batch_pos, processed_count, entity_count,
                   relationship_count, errors, outcomes, doc_events,
                   result_blobs>>
    /\ UNCHANGED store_vars

-----------------------------------------------------------------------------
(* KnowledgeStore.add_entities statement by statement: callers on several
   threads share one store, and nothing in the class takes a lock. *)

Threads == {"t1", "t2"}

\* A thread that is not inside add_entities.
NoEntity == [text |-> <<>>, type |-> "NONE"]

ThreadIdle ==
    [pc |-> "idle", entity |-> NoEntity, aliased |-> FALSE, size_read |-> 0,
     vector_ids |-> <<>>, vectors_to_add |-> <<>>]

ThreadInit == threads = [t \in Threads |-> ThreadIdle]

\* The entity each call passes: one of two keys, with or without embedding.
ThreadPool ==
    LET bare == {[text |-> <<"a">>, type |-> "PERSON", relevance |-> 7,
                  source_documents |-> {"d1"}],
                 [text |-> <<"b">>, type |-> "PROJECT", relevance |-> 8,
                  source_documents |-> {"d2"}]}
    IN  bare \cup {With(e, "embedding", 1) : e \in bare}

\* What no statement of the loop touches.
ThreadFrame ==
    UNCHANGED <<relationship_map, blob_relationships, uuid4_count, calls,
                last_call, inserted, effects, slots_before, rel_inserted>>

\* Lines 139-147: the call is entered with a one-entity list and the entity
\* gets its id.
Begin(t, entity) ==
    /\ threads[t].pc = "idle"
    /\ threads' = [threads EXCEPT ![t] =
                      [@ EXCEPT !.pc = "lookup",
                                !.entity = With(entity, "entity_id", EntityIdOf(entity))]]
    /\ UNCHANGED <<entity_map, entity_id_map, index, blob_index, local_index,
                   blob_entities>>
    /\ ThreadFrame

\* Lines 150-152: existing_entity = self.entity_map.get(entity_id).
Lookup(t) ==
    /\ threads[t].pc = "lookup"
    /\ threads' = [threads EXCEPT ![t].pc =
                      IF DictHas(entity_map, threads[t].entity["entity_id"])
                      THEN "merge" ELSE "insert"]
    /\ UNCHANGED <<entity_map, entity_id_map, index, blob_index, local_index,
                   blob_entities>>
    /\ ThreadFrame

\* Lines 153-176: the merge into the entity found.
Merge(t) ==
    LET entity == threads[t].entity
        key == EntityKey(entity)
        reindex == "embedding" \in DOMAIN entity /\ DictHas(entity_id_map, key)
    IN  /\ threads[t].pc = "merge"
        /\ entity_map' = DictSet(entity_map, entity["entity_id"],
                                 MergeEntity(DictGet(entity_map, entity["entity_id"]),
                                             entity))
        /\ threads' = [threads EXCEPT ![t] =
              [@ EXCEPT !.pc = "index",
                        !.vector_ids =
                            IF reindex THEN Append(@, DictGet(entity_id_map, key)) ELSE @,
                        !.vectors_to_add =
                            IF reindex THEN Append(@, entity["embedding"]) ELSE @]]
        /\ UNCHANGED <<entity_id_map, index, blob_index, local_index, blob_entities>>
        /\ ThreadFrame

\* Line 179: self.entity_map[entity_id] = entity.
InsertEntity(t) ==
    /\ threads[t].pc = "insert"
    /\ entity_map' = DictSet(entity_map, threads[t].entity["entity_id"],
                             threads[t].entity)
    /\ threads' = [threads EXCEPT ![t] = [@ EXCEPT !.pc = "read_size",
                                                   !.aliased = TRUE]]
    /\ UNCHANGED <<entity_id_map, index, blob_index, local_index, blob_entities>>
    /\ ThreadFrame

\* Line 180, the right-hand side: len(self.entity_id_map) is evaluated.
ReadSize(t) ==
    /\ threads[t].pc = "read_size"
    /\ threads' = [threads EXCEPT ![t] = [@ EXCEPT !.pc = "write_slot",
                                                   !.size_read = Len(entity_id_map)]]
    /\ UNCHANGED <<entity_map, entity_id_map, index, blob_index, local_index,
                   blob_entities>>
    /\ ThreadFrame

\* A variant: the size is taken again at the moment of the write.
SlotAtWrite(size_read, id_map) == Len(id_map)

\* Line 180, the assignment: the value stored is the size read before.
SlotWritten(size_read, id_map) == size_read

WriteSlot(t) ==
    /\ threads[t].pc = "write_slot"
    /\ entity_id_map' = DictSet(entity_id_map, EntityKey(threads[t].entity),
                                SlotWritten(threads[t].size_read, entity_id_map))
    /\ threads' = [threads EXCEPT ![t].pc = "collect"]
    /\ UNCHANGED <<entity_map, index, blob_index, local_index, blob_entities>>
    /\ ThreadFrame

\* Lines 183-187: the vector of the new entity is queued under its slot.
Collect(t) ==
    LET entity == threads[t].entity
        embedded == "embedding" \in DOMAIN entity
    IN  /\ threads[t].pc = "collect"
        /\ threads' = [threads EXCEPT ![t] =
              [@ EXCEPT !.pc = "index",
                        !.vector_ids =
                            IF embedded
                            THEN Append(@, DictGet(entity_id_map, EntityKey(entity)))
                            ELSE @,
                        !.vectors_to_add =
                            IF embedded THEN Append(@, entity["embedding"]) ELSE @]]
        /\ UNCHANGED <<entity_map, entity_id_map, index, blob_index, local_index,
                       blob_entities>>
        /\ ThreadFrame

\* Lines 189-206: the queued vectors are added to the index, the index and
\* the entities of the call are saved, and the call returns.
Finish(t) ==
    LET updated == threads[t].vectors_to_add # <<>>
        idx == IF updated THEN IndexAdd(index, threads[t].vectors_to_add) ELSE index
        entity == IF threads[t].aliased
                  THEN DictGet(entity_map, threads[t].entity["entity_id"])
                  ELSE threads[t].entity
    IN  /\ threads[t].pc = "index"
        /\ index' = idx
        /\ blob_index' = IF updated THEN SaveIndexToStorage(idx, blob_index)
                         ELSE blob_index
        /\ local_index' = IF updated THEN SaveIndexToStorage(idx, local_index)
                          ELSE local_index
        /\ blob_entities' = SaveEntitiesToStorage(blob_entities, <<entity>>, 1)
        /\ threads' = [threads EXCEPT ![t].pc = "done"]
        /\ UNCHANGED <<entity_map, entity_id_map>>
        /\ ThreadFrame

-----------------------------------------------------------------------------
(* The store on its own. *)

\* KnowledgeStore.__init__ on a bucket that holds nothing, lines 44-50.
StoreInit ==
    /\ entity_map = <<>>
    /\ entity_id_map = <<>>
    /\ index = <<>>
    /\ relationship_map = <<>>
    /\ blob_index = <<>>
    /\ local_index = <<>>
    /\ blob_entities = NoBlobs
    /\ blob_relationships = NoBlobs
    /\ uuid4_count = 0
    /\ calls = 0
    /\ last_call = [op |-> "init", args |-> [local_file |-> FALSE], ret |-> <<>>]
    /\ inserted = {}
    /\ effects = <<>>
    /\ slots_before = <<>>
    /\ rel_inserted = {}

vars == <<store_vars, extract_vars, prox_vars, search_vars, batch_vars,
          thread_vars>>

Init ==
    StoreInit /\ ExtractInit /\ ProxInit /\ SearchInit /\ BatchInit /\ ThreadInit

\* Callers add entities.
Next ==
    /\ \E entities \in EntityLists(EntityPool) : AddEntities(entities)
    /\ UNCHANGED <<extract_vars, prox_vars, thread_vars, search_vars, batch_vars>>

Spec == Init /\ [][Next]_vars

\* Callers add relationships.
NextRel ==
    /\ \E given \in RelationshipLists, from_extractor \in BOOLEAN :
           AddRelationships(given, from_extractor)
    /\ UNCHANGED <<extract_vars, prox_vars, thread_vars, search_vars, batch_vars>>

SpecRel == Init /\ [][NextRel]_vars

\* The extractor runs on one document: extract, then infer.
NextExtract ==
    \/ /\ \E d \in ExtractDocs : ExtractEntitiesFromDocument(d)
       /\ UNCHANGED <<store_vars, prox_vars, thread_vars, search_vars, batch_vars>>
    \/ /\ InferRelationships
       /\ uuid4_count' = uuid4_count + Len(inferred')
       /\ UNCHANGED <<entity_map, entity_id_map, index, relationship_map,
                      blob_index, local_index, blob_entities, blob_relationships,
                      calls, last_call, inserted, effects, slots_before, rel_inserted>>
       /\ UNCHANGED <<prox_vars, thread_vars, search_vars, batch_vars>>

SpecExtract == Init /\ [][NextExtract]_vars

\* The extractor runs on one note: extract, then infer.
NextExample ==
    \/ /\ \E d \in ExampleDocs : ExtractEntitiesFromDocument(d)
       /\ UNCHANGED <<store_vars, prox_vars, thread_vars, search_vars, batch_vars>>
    \/ /\ InferRelationships
       /\ uuid4_count' = uuid4_count + Len(inferred')
       /\ UNCHANGED <<entity_map, entity_id_map, index, relationship_map,
                      blob_index, local_index, blob_entities, blob_relationships,
                      calls, last_call, inserted, effects, slots_before, rel_inserted>>
       /\ UNCHANGED <<prox_vars, thread_vars, search_vars, batch_vars>>

SpecExample == Init /\ [][NextExample]_vars

\* The extractor runs on a document whose candidates share keys: extract,
\* then infer.
NextCombine ==
    \/ /\ \E d \in CombineDocs : ExtractEntitiesFromDocument(d)
       /\ UNCHANGED <<store_vars, prox_vars, thread_vars, search_vars, batch_vars>>
    \/ /\ InferRelationships
       /\ uuid4_count' = uuid4_count + Len(inferred')
       /\ UNCHANGED <<entity_map, entity_id_map, index, relationship_map,
                      blob_index, local_index, blob_entities, blob_relationships,
                      calls, last_call, inserted, effects, slots_before, rel_inserted>>
       /\ UNCHANGED <<prox_vars, thread_vars, search_vars, batch_vars>>

SpecCombine == Init /\ [][NextCombine]_vars

\* _infer_relationship_type is called on two entities.
NextTypes ==
    /\ \E entity1 \in TypedEntities, entity2 \in TypedEntities :
           InferType(entity1, entity2)
    /\ UNCHANGED <<extract_vars, prox_vars, thread_vars, search_vars, batch_vars>>

SpecTypes == Init /\ [][NextTypes]_vars

\* extract_relationships is called on a list of entities and a document.
NextInfer ==
    /\ \E entities \in InferLists, document_text \in InferTexts :
           InferOn(entities, document_text)
    /\ UNCHANGED <<prox_vars, thread_vars, search_vars, batch_vars>>

SpecInfer == Init /\ [][NextInfer]_vars

\* _check_entity_proximity is called on two texts and a document.
NextProx ==
    /\ \E entity1_text \in {<<"a">>, <<"a", "a">>},
          entity2_text \in {<<"b">>, <<"a", "b">>},
          document_text \in ProxTexts :
           Proximity(entity1_text, entity2_text, document_text)
    /\ UNCHANGED <<batch_vars, thread_vars>>

SpecProx == Init /\ [][NextProx]_vars

\* Callers add entities and search them by text.
NextSearch ==
    \/ /\ \E entities \in EntityLists(SearchPool) : AddEntities(entities)
       /\ UNCHANGED <<extract_vars, prox_vars, thread_vars, search_vars, batch_vars>>
    \/ /\ \E query_text \in SearchQueries, entity_type \in {None, "PERSON"},
              top_k \in {1, 2} :
              SearchEntitiesByText(query_text, entity_type, top_k)
       /\ UNCHANGED <<extract_vars, prox_vars, thread_vars, batch_vars>>

SpecSearch == Init /\ [][NextSearch]_vars

\* A caller fills the store and searches it by vector.
NextVector ==
    \/ /\ \E entities \in VectorBatches : AddEntityBatch(entities)
       /\ UNCHANGED <<extract_vars, prox_vars, thread_vars, search_vars, batch_vars>>
    \/ /\ \E query_embedding \in VectorQueries, entity_type \in {None, "PERSON"},
              top_k \in {1, 2} :
              \E candidates \in IndexSearch(index, query_embedding, top_k * 3) :
                  SearchEntitiesByVector(query_embedding, entity_type, top_k,
                                         candidates)
       /\ UNCHANGED <<extract_vars, prox_vars, thread_vars, batch_vars>>

SpecVector == Init /\ [][NextVector]_vars

\* What callers hand a store they fill and query: the mentions of one
\* person and a project, and a mention whose caller set the project's id.
AppendPool ==
    MergePool \cup
    {[text |-> <<"a">>, type |-> "PERSON", relevance |-> 9,
      source_documents |-> {"d2"},
      entity_id |-> Uuid5(IdName(<<"b">>, "PROJECT"))]}

\* Callers add entities and relationships to one store and search it, by
\* text and by vector, in any order.
NextAppend ==
    \/ /\ \E entity \in AppendPool : AddEntities(<<entity>>)
       /\ UNCHANGED <<extract_vars, prox_vars, thread_vars, search_vars, batch_vars>>
    \/ /\ \E relationship \in RelationshipPool, from_extractor \in BOOLEAN :
              AddRelationships(<<relationship>>, from_extractor)
       /\ UNCHANGED <<extract_vars, prox_vars, thread_vars, search_vars, batch_vars>>
    \/ /\ \E entity_type \in {None, "PERSON"} :
              SearchEntitiesByText(<<"a">>, entity_type, 1)
       /\ UNCHANGED <<extract_vars, prox_vars, thread_vars, batch_vars>>
    \/ /\ \E candidates \in IndexSearch(index, 1, 3) :
              SearchEntitiesByVector(1, None, 1, candidates)
       /\ UNCHANGED <<extract_vars, prox_vars, thread_vars, batch_vars>>

SpecAppend == Init /\ [][NextAppend]_vars

\* The extractor enriches the entities of one document, and callers hand
\* the store entities that carry no id.
NextId ==
    \/ /\ \E d \in IdDocs : ExtractEntitiesFromDocument(d)
       /\ UNCHANGED <<store_vars, prox_vars, thread_vars, search_vars, batch_vars>>
    \/ /\ \E entities \in EntityLists(IdPool) : AddEntities(entities)
       /\ UNCHANGED <<extract_vars, prox_vars, thread_vars, search_vars, batch_vars>>

SpecId == Init /\ [][NextId]_vars

\* Callers add entities, some with an entity_id of the caller's choice.
NextForeign ==
    /\ \E entities \in EntityLists(ForeignPool) : AddEntities(entities)
    /\ UNCHANGED <<extract_vars, prox_vars, thread_vars, search_vars, batch_vars>>

SpecForeign == Init /\ [][NextForeign]_vars

\* The documents are handled one after the other; each hands the store one
\* entity per add_entities call.
NextMerge ==
    /\ \E entity \in MergePool : AddEntities(<<entity>>)
    /\ UNCHANGED <<extract_vars, prox_vars, thread_vars, search_vars, batch_vars>>

SpecMerge == Init /\ [][NextMerge]_vars

\* Two threads call add_entities on the same store, each with one entity;
\* their statements interleave freely.
NextThreads ==
    \/ /\ \E t \in Threads : \E entity \in ThreadPool : Begin(t, entity)
       /\ UNCHANGED <<extract_vars, prox_vars, search_vars, batch_vars>>
    \/ /\ \E t \in Threads : Lookup(t)
       /\ UNCHANGED <<extract_vars, prox_vars, search_vars, batch_vars>>
    \/ /\ \E t \in Threads : Merge(t)
       /\ UNCHANGED <<extract_vars, prox_vars, search_vars, batch_vars>>
    \/ /\ \E t \in Threads : InsertEntity(t)
       /\ UNCHANGED <<extract_vars, prox_vars, search_vars, batch_vars>>
    \/ /\ \E t \in Threads : ReadSize(t)
       /\ UNCHANGED <<extract_vars, prox_vars, search_vars, batch_vars>>
    \/ /\ \E t \in Threads : WriteSlot(t)
       /\ UNCHANGED <<extract_vars, prox_vars, search_vars, batch_vars>>
    \/ /\ \E t \in Threads : Collect(t)
       /\ UNCHANGED <<extract_vars, prox_vars, search_vars, batch_vars>>
    \/ /\ \E t \in Threads : Finish(t)
       /\ UNCHANGED <<extract_vars, prox_vars, search_vars, batch_vars>>

SpecThreads == Init /\ [][NextThreads]_vars

\* The extractor, and the whole of process_document, run on documents the
\* generative model scores as it likes.
NextRelevance ==
    \/ /\ \E blob \in RelevanceBlobs : ExtractEntitiesFromDocument(DocumentOf(blob))
       /\ UNCHANGED <<store_vars, prox_vars, thread_vars, search_vars, batch_vars>>
    \/ /\ \E blob \in RelevanceBlobs : ProcessDocument(blob)
       /\ UNCHANGED <<extract_vars, prox_vars, thread_vars, search_vars>>

SpecRelevance == Init /\ [][NextRelevance]_vars

\* Callers add entities; the process ends and a new one constructs the
\* store on the same bucket and may load it.
NextRestart ==
    \/ /\ \E entities \in EntityLists(EntityPool) : AddEntities(entities)
       /\ UNCHANGED <<extract_vars, prox_vars, thread_vars, search_vars, batch_vars>>
    \/ /\ \E new_machine \in BOOLEAN : Construct(new_machine)
       /\ UNCHANGED <<extract_vars, prox_vars, thread_vars, search_vars, batch_vars>>
    \/ /\ last_call.op = "init"
       /\ \E entity_order \in ListingOrders(blob_entities),
             relationship_order \in ListingOrders(blob_relationships) :
              LoadAllFromStorage(entity_order, relationship_order)
       /\ UNCHANGED <<extract_vars, prox_vars, thread_vars, search_vars, batch_vars>>

SpecRestart == Init /\ [][NextRestart]_vars

\* A caller adds entities to one store and loads it from the bucket, in any
\* order.
NextSlots ==
    \/ /\ \E entities \in EntityLists(EntityPool) : AddEntities(entities)
       /\ UNCHANGED <<extract_vars, prox_vars, thread_vars, search_vars, batch_vars>>
    \/ /\ \E entity_order \in ListingOrders(blob_entities),
             relationship_order \in ListingOrders(blob_relationships) :
              LoadAllFromStorage(entity_order, relationship_order)
       /\ UNCHANGED <<extract_vars, prox_vars, thread_vars, search_vars, batch_vars>>

SpecSlots == Init /\ [][NextSlots]_vars

\* Documents are processed, some of them again; the process ends and a new
\* one constructs the store on the same bucket and loads it.
NextReprocess ==
    \/ /\ \E blob \in ProcessDocuments : ProcessDocument(blob)
       /\ UNCHANGED <<extract_vars, prox_vars, thread_vars, search_vars>>
    \/ /\ \E new_machine \in BOOLEAN : Construct(new_machine)
       /\ UNCHANGED <<extract_vars, prox_vars, thread_vars, search_vars, batch_vars>>
    \/ /\ last_call.op = "init"
       /\ \E entity_order \in ListingOrders(blob_entities),
             relationship_order \in ListingOrders(blob_relationships) :
              LoadAllFromStorage(entity_order, relationship_order)
       /\ UNCHANGED <<extract_vars, prox_vars, thread_vars, search_vars, batch_vars>>

SpecReprocess == Init /\ [][NextReprocess]_vars

\* process_all_documents runs once over a listing of the input bucket.
NextBatch ==
    \/ /\ \E listing \in Listings : ListBlobs(listing)
       /\ UNCHANGED <<extract_vars, prox_vars, thread_vars, search_vars>>
    \/ /\ ProcessBlob
       /\ UNCHANGED <<extract_vars, prox_vars, thread_vars, search_vars>>
    \/ /\ ReturnSummary
       /\ UNCHANGED <<extract_vars, prox_vars, thread_vars, search_vars>>

SpecBatch == Init /\ [][NextBatch]_vars

\* process_all_documents runs on a bucket while the output bucket may refuse
\* uploads.
NextUpload ==
    \/ /\ \E listing \in UploadListings : ListBlobs(listing)
       /\ UNCHANGED <<extract_vars, prox_vars, thread_vars, search_vars>>
    \/ /\ ProcessBlob
       /\ UNCHANGED <<extract_vars, prox_vars, thread_vars, search_vars>>
    \/ /\ ReturnSummary
       /\ UNCHANGED <<extract_vars, prox_vars, thread_vars, search_vars>>

SpecUpload == Init /\ [][NextUpload]_vars

-----------------------------------------------------------------------------
(* Claims about the store. *)

StoredWithKey(key) ==
    {i \in DOMAIN entity_map : EntityKey(entity_map[i].v) = key}

\* C1: any insertions of entities with the same (lowercase(text), type),
\* in one add_entities call or in several, leave exactly one stored entity
\* for that key, whose source_documents is the union of the source documents
\* of all of them, and every one of them returned the same id.
C1_IdempotentMerge ==
    \A h1 \in inserted, h2 \in inserted :
        h1.key = h2.key =>
            /\ h1.id = h2.id
            /\ Cardinality(StoredWithKey(h1.key)) = 1
            /\ \A i \in StoredWithKey(h1.key) :
                  /\ entity_map[i].k = h1.id
                  /\ entity_map[i].v["source_documents"] =
                        UNION {h.docs : h \in {x \in inserted : x.key = h1.key}}

\* Two insertions of one key, the texts in different case, from different
\* documents, and the stored entity names both documents.
C1_Witness ==
    \E h1 \in inserted, h2 \in inserted :
        /\ h1.key = h2.key
        /\ h1.docs # h2.docs
        /\ \E i \in StoredWithKey(h1.key) :
              entity_map[i].v["source_documents"] = h1.docs \cup h2.docs
        /\ calls = 2

\* C10: the vector index holds exactly one vector per entity that has an
\* embedding, at the position equal to the entity's slot, and that vector is
\* the entity's current embedding (so a re-insertion does not grow the index).
C10_IndexMatchesSlots ==
    /\ Len(index) =
          Cardinality({i \in DOMAIN entity_map : "embedding" \in DOMAIN entity_map[i].v})
    /\ \A i \in DOMAIN entity_map :
          LET e == entity_map[i].v
              slot == DictGet(entity_id_map, EntityKey(e))
          IN  "embedding" \in DOMAIN e =>
                 /\ slot + 1 \in DOMAIN index
                 /\ index[slot + 1] = e["embedding"]

StoredWithTriple(triple) ==
    {i \in DOMAIN relationship_map : Triple(relationship_map[i].v) = triple}

MaxOf(S) == CHOOSE m \in S : \A x \in S : x <= m

\* C4: relationship_map holds exactly one relationship per triple ever
\* inserted, its confidence is the maximum confidence inserted for the
\* triple, and every insertion of the triple returned the stored id.
C4_TripleDedup ==
    \A h \in rel_inserted :
        /\ Cardinality(StoredWithTriple(h.triple)) = 1
        /\ \A i \in StoredWithTriple(h.triple) :
              /\ relationship_map[i].k = h.id
              /\ relationship_map[i].v["relationship_id"] = h.id
              /\ relationship_map[i].v["confidence"] =
                    MaxOf({x.confidence : x \in {y \in rel_inserted : y.triple = h.triple}})

\* One triple inserted with confidence 0.4 and with 0.9, in two calls: one
\* stored relationship, with confidence 0.9.
C4_Witness ==
    /\ last_call.op = "add_relationships"
    /\ Len(last_call.args) = 1
    /\ Len(relationship_map) = 1
    /\ {h.confidence : h \in rel_inserted} = {4, 9}
    /\ relationship_map[1].v["confidence"] = 9

-----------------------------------------------------------------------------
(* Claims about the extractor. *)

\* C3: every relationship that extract_relationships emits has its
\* direction canonicalized by type priority: for a PERSON/PROJECT pair the
\* source is the PERSON (source_type, source_entity_id) and the target is
\* the PROJECT, whichever of the two comes first in the entity list.
C3_CanonicalDirection ==
    \A k \in DOMAIN inferred :
        LET r == inferred[k]
        IN  {r["source_type"], r["target_type"]} = {"PERSON", "PROJECT"} =>
               /\ r["source_type"] = "PERSON"
               /\ r["target_type"] = "PROJECT"
               /\ \E i \in DOMAIN extracted :
                     /\ extracted[i]["type"] = "PERSON"
                     /\ extracted[i]["entity_id"] = r["source_entity_id"]
               /\ \E i \in DOMAIN extracted :
                     /\ extracted[i]["type"] = "PROJECT"
                     /\ extracted[i]["entity_id"] = r["target_entity_id"]

\* C8: extract_entities_from_document never raises to its caller, whatever
\* the generative model and the embedding model do.
C8_ExtractNeverRaises == extract_state # "raised"

\* The entities of the list carry the key.
HasKey(entities, key) ==
    \E i \in DOMAIN entities : EntityKey(entities[i]) = key

\* The reply of window k is a JSON array of objects.
UsableReply(reply) ==
    reply.kind = "list" /\ \A i \in DOMAIN reply.items : IsDict(reply.items[i])

\* Nothing but unparsable replies goes wrong: the embedding model answers
\* and every object the model returned has its text and type.
OnlyParseFailures ==
    /\ ~doc.embedding_fails
    /\ \A k \in DOMAIN doc.replies :
          UsableReply(doc.replies[k]) =>
             \A i \in DOMAIN doc.replies[k].items : HasKeyFields(doc.replies[k].items[i])

\* C9: when replies of the generative model are not valid JSON, extract
\* returns, and its result holds (under its key) every entity of every
\* window whose reply was usable and every pattern-derived entity.
C9_OtherWindowsKept ==
    (extract_state # "idle" /\ OnlyParseFailures) =>
        /\ extract_state = "returned"
        /\ \A k \in DOMAIN doc.replies :
              UsableReply(doc.replies[k]) =>
                 \A i \in DOMAIN doc.replies[k].items :
                    HasKey(extracted, EntityKey(doc.replies[k].items[i]))
        /\ \A i \in DOMAIN doc.pattern_entities :
              HasKey(extracted, EntityKey(doc.pattern_entities[i]))

\* The first window's reply is no JSON, the second window's reply holds a
\* PROJECT that no pattern found: extract returned, the PROJECT is there.
C9_Witness ==
    /\ extract_state = "returned"
    /\ Len(doc.replies) = 2
    /\ doc.replies[1].kind = "invalid_json"
    /\ doc.replies[2].kind = "list"
    /\ doc.replies[2].items # <<>>
    /\ doc.pattern_entities # <<>>
    /\ \A i \in DOMAIN doc.pattern_entities : doc.pattern_entities[i]["type"] = "PERSON"
    /\ \E i \in DOMAIN extracted : extracted[i]["type"] = "PROJECT"

-----------------------------------------------------------------------------
(* Claims about proximity. *)

\* Every occurrence of the text in the document, case-insensitive.
AllOccurrences(entity_text, document_text) ==
    {<<p, p + Len(entity_text)>> :
        p \in {q \in 0..Len(document_text) : MatchesAt(entity_text, document_text, q)}}

\* The characters between two occurrences: 0 when they overlap or touch.
Gap(o1, o2) == Max(0, Max(o2[1] - o1[2], o1[1] - o2[2]))

MinGap(occ1, occ2) ==
    LET gaps == {Gap(o1, o2) : o1 \in occ1, o2 \in occ2}
    IN  CHOOSE d \in gaps : \A x \in gaps : d <= x

\* C5: the proximity score is max(0, 1 - d/200), d the minimal gap over all
\* pairs of occurrences of the two texts (1.0 at d = 0, 0 from d = 200 on);
\* when a text has no occurrence the score is 0 and no relationship is
\* emitted; the score is within [0, 1].
C5_ProximityScore ==
    prox_score # -1 =>
        LET occ1 == AllOccurrences(prox_args.entity1_text, prox_args.document_text)
            occ2 == AllOccurrences(prox_args.entity2_text, prox_args.document_text)
        IN  /\ prox_score \in 0..WindowSize
            /\ IF occ1 = {} \/ occ2 = {}
               THEN prox_score = 0 /\ inferred = <<>>
               ELSE prox_score = Max(0, WindowSize - MinGap(occ1, occ2))

-----------------------------------------------------------------------------
(* Claims about search. *)

\* The result is an exact case-insensitive match of the last query.
ExactMatch(result) == Lower(result["text"]) = Lower(search_args.query_text)

\* C6: in a text search every entity whose text equals the query
\* case-insensitively has similarity 1.0 and is ranked before every entity
\* that matched by containment or word overlap only; when the store holds
\* such an entity of the requested type, the first result is one.
C6_ExactMatchFirst ==
    last_call.op = "search_entities" =>
        /\ \A i \in DOMAIN results :
              ExactMatch(results[i]) =>
                 /\ results[i]["similarity"] = SimilarityScale
                 /\ \A j \in DOMAIN results : ~ExactMatch(results[j]) => i < j
        /\ (\E k \in DOMAIN entity_map :
               /\ Lower(entity_map[k].v["text"]) = Lower(search_args.query_text)
               /\ search_args.entity_type \in {None, entity_map[k].v["type"]})
           => ExactMatch(results[1])

-----------------------------------------------------------------------------
(* Claims about the entity id. *)

\* The ids the store gave to entities that arrived without one.
StoreAssignedIds ==
    {[key |-> h.key, id |-> h.id] : h \in {x \in inserted : ~x.given_id}}

\* The ids _enrich_entities gave to the entities of the document.
ExtractorAssignedIds ==
    {[key |-> EntityKey(extracted[k]), id |-> extracted[k]["entity_id"]] :
        k \in DOMAIN extracted}

\* C2: the id _enrich_entities assigns and the id add_entities assigns to
\* an entity that arrives without one are equal whenever (lowercase(text),
\* type) are equal, whatever the relevance, the metadata, the document, the
\* extraction strategy and the order of the calls.
C2_IdIsFunctionOfKey ==
    \A x \in StoreAssignedIds \cup ExtractorAssignedIds,
       y \in StoreAssignedIds \cup ExtractorAssignedIds :
        x.key = y.key => x.id = y.id

\* The store has given an id to "A"/PERSON of relevance 0.3 from d2 or d1
\* after the extractor gave one to "a"/PERSON found by the patterns in d1,
\* and to "a"/PERSON in another call.
C2_Witness ==
    /\ extract_state = "returned"
    /\ \E k \in DOMAIN extracted :
          /\ extracted[k]["text"] = <<"a">>
          /\ extracted[k]["type"] = "PERSON"
          /\ extracted[k]["metadata"] = "email"
          /\ last_call.op = "add_entities"
          /\ \E j \in DOMAIN last_call.args :
                /\ last_call.args[j]["text"] = <<"A">>
                /\ last_call.args[j]["type"] = "PERSON"
                /\ last_call.args[j]["relevance"] # extracted[k]["relevance"]
                /\ last_call.ret[j] = extracted[k]["entity_id"]
    /\ Cardinality({h \in inserted : h.key = <<(<<"a">>), "PERSON">>}) >= 2

-----------------------------------------------------------------------------
(* Claims about the batch. *)

\* The blobs of the listing process_all_documents handles, and those of
\* them that do not load.
JsonBlobs == {i \in DOMAIN input_blobs : EndsWithJson(input_blobs[i].name)}

FailedToLoad == {i \in JsonBlobs : NotDocumentContent(input_blobs[i])}

ErrorsNaming(blob) ==
    {k \in DOMAIN summary.errors : summary.errors[k].blob = blob.name}

\* C7: when process_all_documents has returned, a document that failed to
\* load is not counted in documents_processed, has exactly one entry in
\* errors that names it and has contributed no stored entity, and every
\* other document of the batch has been processed.
C7_LoadFailureIsolated ==
    batch_state = "done" =>
        /\ summary.documents_processed <= Cardinality(JsonBlobs \ FailedToLoad)
        /\ \A i \in FailedToLoad :
              /\ outcomes[i] # "result"
              /\ Cardinality(ErrorsNaming(input_blobs[i])) = 1
              /\ \A k \in DOMAIN entity_map :
                    DocumentPath(input_blobs[i]) \notin
                        entity_map[k].v["source_documents"]
        /\ Len(outcomes) = Len(input_blobs)
        /\ \A i \in JsonBlobs \ FailedToLoad : outcomes[i] \in {"result", "raised"}

-----------------------------------------------------------------------------
(* Claims about persistence. *)

\* C11: after the construction of a store that found no local index file,
\* the index holds the vectors of the persisted index blob when there is
\* one, and is empty only when there is none.
C11_IndexReloaded ==
    (last_call.op = "init" /\ ~last_call.args.local_file) => index = blob_index

\* A dict as the set of its items.
Items(d) == {d[i] : i \in DOMAIN d}

\* C12: after add_entities returns, the durable record of every entity of
\* the call equals the entity held in memory for its id, so that loading the
\* records into an empty store reproduces the entity map.
C12_DurableEqualsMemory ==
    last_call.op = "add_entities" =>
        /\ \A j \in DOMAIN last_call.ret :
              LET entity == DictGet(entity_map, last_call.ret[j])
              IN  /\ EntityBlobName(entity) \in DOMAIN blob_entities
                  /\ blob_entities[EntityBlobName(entity)] = entity
        /\ \A order \in ListingOrders(blob_entities) :
              Items(LoadEntitiesFrom([entity_map |-> <<>>, entity_id_map |-> <<>>,
                                      entity_count |-> 0],
                                     blob_entities, order, 1).entity_map)
                  = Items(entity_map)

\* C13: processing a document again does not duplicate relationships: no
\* two relationships of relationship_map, and no two durable relationship
\* records, have the same (source_entity_id, target_entity_id,
\* relationship_type), also after a reload through load_all_from_storage.
C13_NoDuplicateTriples ==
    /\ \A i, j \in DOMAIN relationship_map :
          i # j => Triple(relationship_map[i].v) # Triple(relationship_map[j].v)
    /\ \A n1, n2 \in DOMAIN blob_relationships :
          n1 # n2 => Triple(blob_relationships[n1]) # Triple(blob_relationships[n2])

-----------------------------------------------------------------------------
(* Claims about ids that callers set. *)

\* C14: every entity of entity_map is stored under the deterministic hash
\* of its own (lowercase(text), type), also when it arrived with an
\* entity_id already set, and no two stored entities share a
\* (lowercase(text), type) key.
C14_StoredUnderOwnHash ==
    /\ \A i \in DOMAIN entity_map :
          /\ entity_map[i].k = StoreEntityId(entity_map[i].v)
          /\ entity_map[i].v["entity_id"] = entity_map[i].k
    /\ \A i, j \in DOMAIN entity_map :
          i # j => EntityKey(entity_map[i].v) # EntityKey(entity_map[j].v)

-----------------------------------------------------------------------------
(* Claims about the patterns. *)

\* C15: for "Contact john.smith@example.com about Project Alpha initiative
\* timeline.", extract followed by infer yields a PERSON "John Smith", a
\* PROJECT that refers to "Project Alpha", and a WORKS_ON relationship
\* between the two with confidence above 0.
C15_ExampleYieldsWorksOn ==
    (doc.text = ExampleText /\ ~doc.embedding_fails /\ infer_state = "returned") =>
        \E i, j \in DOMAIN extracted :
            /\ extracted[i]["type"] = "PERSON"
            /\ extracted[i]["text"] = PersonName
            /\ extracted[j]["type"] = "PROJECT"
            /\ IsSubstring(Lower(ProjectName), Lower(extracted[j]["text"]))
            /\ \E k \in DOMAIN inferred :
                  /\ inferred[k]["relationship_type"] = "WORKS_ON"
                  /\ {inferred[k]["source_entity_id"], inferred[k]["target_entity_id"]}
                        = {extracted[i]["entity_id"], extracted[j]["entity_id"]}
                  /\ inferred[k]["confidence"] > 0

-----------------------------------------------------------------------------
(* Claims about the path of a document through the batch. *)

\* The path of a document that went through: stored means add_entities and
\* then add_relationships.
FullPath ==
    <<"Discovered", "Loaded", "Extracted", "add_entities", "add_relationships",
      "Summarized">>

\* C16: when process_all_documents has returned, every document it handled
\* either went Discovered, Loaded, Extracted, Stored (add_entities, then
\* add_relationships), Summarized, or failed, is named in errors, and the
\* blobs after it were still handled.
C16_PathOrRecordedFailure ==
    batch_state = "done" =>
        /\ Len(doc_events) = Len(input_blobs)
        /\ \A i \in JsonBlobs :
              \/ doc_events[i] = FullPath
              \/ /\ doc_events[i][Len(doc_events[i])] \in {"Failed", "LoadFailed"}
                 /\ ErrorsNaming(input_blobs[i]) # {}

-----------------------------------------------------------------------------
(* Claims about the merge. *)

\* The fields a merge handles on their own.
MergeSpecial == {"entity_id", "source_documents", "embedding"}

\* The entity stored under the id of the entity of the last call.
StoredFor(emap, entity) == DictGet(emap, EntityIdOf(entity))

\* The store after add_entities([first]) and then add_entities([second]) on
\* an empty store.
StoredAfter(first, second) ==
    LET one == AddEntitiesResult(<<>>, <<>>, <<first>>)
        two == AddEntitiesResult(one.entity_map, one.entity_id_map, <<second>>)
    IN  two.entity_map

\* Two serialized single-entity calls on an empty store that name the same
\* entity: the step is the second call.
SecondMention ==
    /\ calls = 1
    /\ calls' = 2
    /\ last_call.op = "add_entities"
    /\ last_call'.op = "add_entities"
    /\ EntityIdOf(last_call.args[1]) = EntityIdOf(last_call'.args[1])

\* C17: when two documents mention the same entity and their add_entities
\* calls run one after the other, the stored source_documents is the union
\* of both, the same as if the calls had run in the other order, and every
\* other field the last call gave (embedding aside) holds the value of the
\* last call.
C17_MergeOrder ==
    [][SecondMention =>
          LET first == last_call.args[1]
              second == last_call'.args[1]
              stored == StoredFor(entity_map', second)
              swapped == StoredFor(StoredAfter(second, first), first)
          IN  /\ stored["source_documents"] =
                     first["source_documents"] \cup second["source_documents"]
              /\ stored["source_documents"] = swapped["source_documents"]
              /\ \A f \in DOMAIN second \ MergeSpecial : stored[f] = second[f]]_vars

\* Both documents have mentioned the entity, the second with another
\* relevance and another spelling than the first.
C17_Witness ==
    /\ calls = 2
    /\ Len(entity_map) = 1
    /\ last_call.op = "add_entities"
    /\ entity_map[1].v["source_documents"] = {"d1", "d2"}
    /\ last_call.args[1]["source_documents"] = {"d1"}
    /\ entity_map[1].v["relevance"] = 3
    /\ entity_map[1].v["text"] = <<"A">>
    /\ entity_map[1].k = Uuid5(<<"a", "-", "PERSON">>)

\* A single-entity add_entities call whose entity the store already holds:
\* the step is the merge.
MergeStep ==
    /\ calls' = calls + 1
    /\ last_call'.op = "add_entities"
    /\ DictHas(entity_map, EntityIdOf(last_call'.args[1]))

\* What a merge does to the fields other than source_documents, and to the
\* vector index.
MergeFrame(before, after, incoming) ==
    /\ after["entity_id"] = before["entity_id"]
    /\ \A f \in DOMAIN incoming \ MergeSpecial : after[f] = incoming[f]
    /\ \A f \in DOMAIN before \ (DOMAIN incoming \cup {"source_documents"}) :
          /\ f \in DOMAIN after
          /\ after[f] = before[f]
    /\ DOMAIN after = DOMAIN before \cup DOMAIN incoming \cup {"entity_id"}
    /\ "embedding" \notin DOMAIN incoming =>
          /\ "embedding" \in DOMAIN after <=> "embedding" \in DOMAIN before
          /\ index' = index
          /\ blob_index' = blob_index

\* C20: merging an incoming entity into a stored one leaves entity_id
\* unchanged, sets source_documents to the union of the stored and the
\* incoming documents, sets every other non-embedding field of the incoming
\* entity to the incoming value, leaves the fields the incoming entity lacks
\* unchanged, and, when the incoming entity carries no embedding, leaves the
\* stored embedding and the vector index unchanged.
C20_MergeFrameUnion ==
    [][MergeStep =>
          LET incoming == last_call'.args[1]
              before == StoredFor(entity_map, incoming)
              after == StoredFor(entity_map', incoming)
          IN  /\ MergeFrame(before, after, incoming)
              /\ after["source_documents"] =
                     before["source_documents"] \cup incoming["source_documents"]]_vars

\* An entity without embedding and without metadata, from another document,
\* has been merged into a stored entity that has both.
C20_Witness ==
    /\ calls = 2
    /\ Len(entity_map) = 1
    /\ last_call.op = "add_entities"
    /\ DOMAIN last_call.args[1] \cap {"embedding", "metadata"} = {}
    /\ {"embedding", "metadata"} \subseteq DOMAIN entity_map[1].v
    /\ entity_map[1].v["relevance"] = last_call.args[1]["relevance"]
    /\ entity_map[1].v["source_documents"] = {"d1", "d2"}
    /\ Len(index) = 1

\* C20 as stated: every non-embedding field of the incoming entity other
\* than entity_id, source_documents among them, is set to the incoming
\* value.
C20_MergeFrameAsStated ==
    [][MergeStep =>
          LET incoming == last_call'.args[1]
              before == StoredFor(entity_map, incoming)
              after == StoredFor(entity_map', incoming)
          IN  /\ MergeFrame(before, after, incoming)
              /\ after["source_documents"] = incoming["source_documents"]]_vars

-----------------------------------------------------------------------------
(* Claims about concurrent callers. *)

\* The thread has inserted a new entity and written its slot.
Slotted(t) == threads[t].aliased /\ threads[t].pc \in {"collect", "index", "done"}

SlotOf(t) == DictGet(entity_id_map, EntityKey(threads[t].entity))

\* C18: of two add_entities calls that run without serialization and each
\* insert a different new entity, both entities receive the same slot
\* exactly when both calls read the size of the id map before either wrote
\* its slot, that is, when both read the same size.
C18_SameSlotOnStaleRead ==
    \A t1, t2 \in Threads :
        (/\ t1 # t2
         /\ Slotted(t1)
         /\ Slotted(t2)
         /\ EntityKey(threads[t1].entity) # EntityKey(threads[t2].entity)) =>
            (SlotOf(t1) = SlotOf(t2) <=> threads[t1].size_read = threads[t2].size_read)

\* Both calls have returned, each inserted its own entity with an
\* embedding, the index holds both vectors, and both entities have slot 0.
C18_Witness ==
    /\ \A t \in Threads : threads[t].pc = "done" /\ threads[t].aliased
    /\ Len(entity_map) = 2
    /\ Len(entity_id_map) = 2
    /\ Len(index) = 2
    /\ entity_id_map[1].k # entity_id_map[2].k
    /\ entity_id_map[1].v = 0
    /\ entity_id_map[2].v = 0

-----------------------------------------------------------------------------
(* Claims about relevance. *)

\* [0,1] in tenths.
UnitRelevance(entity) == entity["relevance"] >= 0 /\ entity["relevance"] <= 10

\* C19: every entity extract returns, and every entity the pipeline stores,
\* has relevance within [0,1], whatever relevance the generative model gave.
C19_RelevanceInUnitInterval ==
    /\ \A i \in DOMAIN extracted : UnitRelevance(extracted[i])
    /\ \A i \in DOMAIN entity_map : UnitRelevance(entity_map[i].v)
    /\ \A n \in DOMAIN blob_entities : UnitRelevance(blob_entities[n])

-----------------------------------------------------------------------------
(* Claims about the index within one call. *)

\* The positions of a write in the effects of a call.
Positions(log, write) == {k \in DOMAIN log : log[k] = write}

\* The embeddings the entities of a call carry, in list order.
RECURSIVE CarriedFrom(_, _)
CarriedFrom(entities, j) ==
    IF j > Len(entities) THEN <<>>
    ELSE (IF "embedding" \in DOMAIN entities[j]
          THEN <<entities[j]["embedding"]>> ELSE <<>>)
         \o CarriedFrom(entities, j + 1)

\* A step that is an add_entities call.
AddEntitiesStep ==
    /\ last_call'.op = "add_entities"
    /\ calls' > calls

\* C21: within one add_entities call the index takes at most one bulk add
\* (of the embeddings the call carries) and is persisted at most once, after
\* every write of entity_map and before every entity record of the call;
\* a call none of whose entities carries an embedding leaves the index and
\* its snapshots as they were.
C21_OneBulkAddThenSnapshot ==
    [][AddEntitiesStep =>
          LET carried == CarriedFrom(last_call'.args, 1)
              adds == Positions(effects', "index.add")
              saves == Positions(effects', "index.save")
          IN  /\ Cardinality(adds) <= 1
              /\ Cardinality(saves) <= 1
              /\ index' = index \o carried
              /\ \A a \in adds, m \in Positions(effects', "entity_map") : m < a
              /\ \A a \in adds, v \in saves : a < v
              /\ \A v \in saves, r \in Positions(effects', "entity.save") : v < r
              /\ Cardinality(saves) = Cardinality(adds)
              /\ carried # <<>> => adds # {} /\ blob_index' = index'
              /\ carried = <<>> =>
                    /\ adds = {}
                    /\ saves = {}
                    /\ blob_index' = blob_index
                    /\ local_index' = local_index]_vars

\* A call of two entities, one of them with an embedding, has returned.
C21_Witness ==
    /\ last_call.op = "add_entities"
    /\ Len(last_call.args) = 2
    /\ Len(CarriedFrom(last_call.args, 1)) = 1
    /\ effects = <<"entity_map", "entity_map", "index.add", "index.save",
                   "entity.save", "entity.save">>
    /\ Len(index) = 1
    /\ blob_index = index

-----------------------------------------------------------------------------
(* Claims about what a text search returns. *)

\* Jaccard similarity of two word sets, in units of 1/SimilarityScale.
Jaccard(words1, words2) ==
    IF words1 \cup words2 = {} THEN 0
    ELSE (Cardinality(words1 \cap words2) * SimilarityScale)
             \div Cardinality(words1 \cup words2)

\* The score the claim states, for the text of a stored entity and the last
\* query.
StatedScore(text) ==
    LET query == Lower(search_args.query_text)
        lowered == Lower(text)
    IN  IF query = lowered THEN SimilarityScale
        ELSE IF IsSubstring(query, lowered) \/ IsSubstring(lowered, query)
        THEN (SimilarityScale \div 10) * 8
        ELSE Jaccard(Words(query), Words(lowered))

\* The stored entities the last query asks for: of the requested type, with
\* a score above 0.1.
Qualifying ==
    {k \in DOMAIN entity_map :
        /\ search_args.entity_type \in {None, entity_map[k].v["type"]}
        /\ 10 * StatedScore(entity_map[k].v["text"]) > SimilarityScale}

\* C22: a text search returns stored entities of the requested type whose
\* score is above 0.1, each once and with its score (1.0 for a
\* case-insensitive exact match, 0.8 for containment in either direction,
\* else the Jaccard similarity of the word sets), sorted by score
\* descending and cut to top_k: as many as qualify up to top_k, and none
\* left out scores higher than one returned.
C22_TextSearchResult ==
    last_call.op = "search_entities" =>
        /\ Len(results) = Min(search_args.top_k, Cardinality(Qualifying))
        /\ \A i \in DOMAIN results :
              \E k \in Qualifying :
                  results[i] = With(entity_map[k].v, "similarity",
                                    StatedScore(entity_map[k].v["text"]))
        /\ \A i, j \in DOMAIN results :
              /\ i # j => results[i]["entity_id"] # results[j]["entity_id"]
              /\ i < j => results[i]["similarity"] >= results[j]["similarity"]
        /\ \A k \in Qualifying, i \in DOMAIN results :
              StatedScore(entity_map[k].v["text"]) > results[i]["similarity"] =>
                  \E j \in DOMAIN results :
                      results[j]["entity_id"] = entity_map[k].v["entity_id"]

\* A search with top_k = 1 over a store of two entities that both qualify,
\* the second stored with the higher score: the first lies in the query
\* (0.8), the second equals it (1.0) and is the one returned.
C22_Witness ==
    /\ last_call.op = "search_entities"
    /\ search_args.top_k = 1
    /\ Cardinality(Qualifying) = 2
    /\ Len(results) = 1
    /\ results[1]["similarity"] = SimilarityScale
    /\ 10 * StatedScore(entity_map[1].v["text"]) = 8 * SimilarityScale
    /\ results[1]["entity_id"] = entity_map[2].v["entity_id"]

-----------------------------------------------------------------------------
(* Claims about what a vector search returns. *)

\* The candidate position has an entity of the requested type at its slot.
Acceptable(position) ==
    /\ position # -1
    /\ HasSlot(entity_id_map, position)
    /\ search_args.entity_type \in {None, FoundKey(entity_id_map, position)[2]}

\* The candidates of the last search that are acceptable, nearest first.
AcceptedCandidates == SelectSeq(search_args.candidates, Acceptable)

\* C23: a vector search returns at most top_k entities, all of the
\* requested type when one is given, each the entity at the slot of one of
\* the top_k*3 nearest index positions with the similarity of that
\* position, nearest first; the results are the first top_k acceptable
\* candidates, so the loop stops once top_k are collected; on an empty
\* index the result is empty.
C23_VectorSearchResult ==
    last_call.op = "search_by_vector" =>
        /\ Len(results) <= search_args.top_k
        /\ Len(index) = 0 => results = <<>>
        /\ Len(index) > 0 =>
              /\ Len(search_args.candidates) = search_args.top_k * 3
              /\ \A c \in DOMAIN search_args.candidates,
                    p \in 0..(Len(index) - 1) :
                      (/\ search_args.candidates[c] # -1
                       /\ \A d \in DOMAIN search_args.candidates :
                             search_args.candidates[d] # p) =>
                          Distance2(index[p + 1], search_args.query_embedding)
                            >= Distance2(index[search_args.candidates[c] + 1],
                                         search_args.query_embedding)
              /\ Len(results) = Min(search_args.top_k, Len(AcceptedCandidates))
              /\ \A i \in DOMAIN results :
                    /\ search_args.entity_type \in {None, results[i]["type"]}
                    /\ EntityKey(results[i]) =
                           FoundKey(entity_id_map, AcceptedCandidates[i])
                    /\ results[i]["similarity"] =
                           VectorSimilarity(
                               Distance2(index[AcceptedCandidates[i] + 1],
                                         search_args.query_embedding))
                    /\ \E k \in DOMAIN entity_map :
                          results[i] = With(entity_map[k].v, "similarity",
                                            results[i]["similarity"])
              /\ \A i, j \in DOMAIN results :
                    i < j => results[i]["similarity"] >= results[j]["similarity"]

\* A search for one PERSON over an index of four vectors: three candidates
\* are asked for, the nearest is returned and the loop stops; of the two
\* candidates left one is a PROJECT and one a PERSON.
C23_Witness ==
    /\ last_call.op = "search_by_vector"
    /\ search_args.top_k = 1
    /\ search_args.entity_type = "PERSON"
    /\ Len(index) = MaxVectors
    /\ Len(search_args.candidates) < Len(index)
    /\ FoundKey(entity_id_map, search_args.candidates[2])[2] = "PROJECT"
    /\ Len(AcceptedCandidates) = 2
    /\ Len(results) = 1
    /\ results[1]["similarity"] = SimilarityScale

-----------------------------------------------------------------------------
(* Claims about the merged list. *)

\* The relevance _combine_entity_results reads: 0 when the candidate has none.
ReadRelevance(entity) == Get(entity, "relevance", 0)

\* The candidates of both strategies for the document last extracted.
Candidates ==
    {(ai_entities \o doc.pattern_entities)[k] :
        k \in DOMAIN (ai_entities \o doc.pattern_entities)}

\* C24: the merged list of extract holds every key (lowercase(text), type)
\* of the candidates once, the record kept for a key is a candidate of the
\* highest relevance among the candidates of both strategies with that key,
\* the list is sorted by relevance descending, and the entities extract
\* returns are those of the merged list in its order.
C24_MergedList ==
    extract_state = "returned" =>
        LET merged == CombineEntityResults(ai_entities, doc.pattern_entities)
        IN  /\ \A i, j \in DOMAIN merged :
                  i # j => EntityKey(merged[i]) # EntityKey(merged[j])
            /\ \A c \in Candidates :
                  \E i \in DOMAIN merged : EntityKey(merged[i]) = EntityKey(c)
            /\ \A i \in DOMAIN merged :
                  /\ merged[i] \in Candidates
                  /\ \A c \in Candidates :
                        EntityKey(c) = EntityKey(merged[i]) =>
                            ReadRelevance(merged[i]) >= ReadRelevance(c)
            /\ \A i, j \in DOMAIN merged :
                  i < j => ReadRelevance(merged[i]) >= ReadRelevance(merged[j])
            /\ Len(extracted) = Len(merged)
            /\ \A i \in DOMAIN merged :
                  /\ extracted[i]["text"] = merged[i]["text"]
                  /\ extracted[i]["type"] = merged[i]["type"]

\* The model named the person twice, the lower relevance first, and the
\* patterns found the person and the project: the list holds the person
\* with the highest relevance, then the project.
C24_Witness ==
    /\ extract_state = "returned"
    /\ Len(ai_entities) = 2
    /\ ReadRelevance(ai_entities[1]) = 6
    /\ Len(doc.pattern_entities) = 2
    /\ Len(extracted) = 2
    /\ extracted[1]["text"] = <<"a">>
    /\ extracted[1]["relevance"] = 9
    /\ extracted[2]["type"] = "PROJECT"

-----------------------------------------------------------------------------
(* Claims about the relationship type. *)

\* The table of the claim, on the unordered pair of types.
StatedRelationshipType(types) ==
    IF types = {"PERSON", "PROJECT"} THEN "WORKS_ON"
    ELSE IF types = {"PERSON", "TERM"} THEN "EXPERTISE_IN"
    ELSE IF types = {"PROJECT", "TERM"} THEN "USES"
    ELSE "RELATED_TO"

\* C25: the relationship type inferred for two entities is the one the
\* table gives for the unordered pair of their types (WORKS_ON for PERSON
\* and PROJECT, EXPERTISE_IN for PERSON and TERM, USES for PROJECT and TERM,
\* RELATED_TO for every other pair), and the call with the two arguments
\* swapped returns the same.
C25_TypeOfUnorderedPair ==
    last_call.op = "_infer_relationship_type" =>
        LET entity1 == last_call.args[1]
            entity2 == last_call.args[2]
        IN  /\ last_call.ret =
                   StatedRelationshipType({entity1["type"], entity2["type"]})
            /\ InferRelationshipType(entity2, entity1) = last_call.ret

\* The call was made with the PROJECT first and the PERSON second.
C25_Witness ==
    /\ last_call.op = "_infer_relationship_type"
    /\ last_call.args[1]["type"] = "PROJECT"
    /\ last_call.args[2]["type"] = "PERSON"
    /\ last_call.ret = "WORKS_ON"

-----------------------------------------------------------------------------
(* Claims about the inferred relationships. *)

\* The text occurs in the document, letter case aside.
Occurs(text, document_text) ==
    \E pos \in 0..Len(document_text) : MatchesAt(text, document_text, pos)

\* A pair of positions of the input that may get a relationship.
MayRelate(i, j) ==
    /\ extracted[i]["type"] # extracted[j]["type"]
    /\ Occurs(extracted[i]["text"], doc.text)
    /\ Occurs(extracted[j]["text"], doc.text)
    /\ CheckEntityProximity(extracted[i]["text"], extracted[j]["text"],
                            doc.text, WindowSize) > 0

\* The pairs of positions i < j whose entities have these two ids.
PairsOf(source_id, target_id) ==
    {pair \in (DOMAIN extracted) \X (DOMAIN extracted) :
        /\ pair[1] < pair[2]
        /\ extracted[pair[1]]["entity_id"] = source_id
        /\ extracted[pair[2]]["entity_id"] = target_id}

\* The relationships emitted from the first id to the second.
EmittedFor(source_id, target_id) ==
    {k \in DOMAIN inferred :
        /\ inferred[k]["source_entity_id"] = source_id
        /\ inferred[k]["target_entity_id"] = target_id}

\* The input holds no entity twice.
DistinctInput ==
    \A i, j \in DOMAIN extracted :
        extracted[i]["entity_id"] = extracted[j]["entity_id"] => i = j

\* C26: extract_relationships emits a relationship for a pair of input
\* entities only if their types differ, both texts occur in the document
\* and their proximity is above 0; a pair of input entities yields at most
\* one relationship, and fewer than two input entities yield none.
C26_OnlyRelatedPairsOnce ==
    infer_state = "returned" =>
        /\ Len(extracted) < 2 => inferred = <<>>
        /\ \A k \in DOMAIN inferred :
               \E pair \in PairsOf(inferred[k]["source_entity_id"],
                                   inferred[k]["target_entity_id"]) :
                   MayRelate(pair[1], pair[2])
        /\ \A i, j \in DOMAIN extracted :
               LET source_id == extracted[i]["entity_id"]
                   target_id == extracted[j]["entity_id"]
               IN  Cardinality(EmittedFor(source_id, target_id))
                       <= Cardinality({pair \in PairsOf(source_id, target_id) :
                                          MayRelate(pair[1], pair[2])})
        /\ DistinctInput =>
               \A k1, k2 \in DOMAIN inferred :
                   {inferred[k1]["source_entity_id"], inferred[k1]["target_entity_id"]}
                     = {inferred[k2]["source_entity_id"], inferred[k2]["target_entity_id"]}
                       => k1 = k2

\* Three entities, two of one type that stand next to each other: the two
\* relationships that come out are those of the pairs of differing types.
C26_Witness ==
    /\ infer_state = "returned"
    /\ Len(extracted) = 3
    /\ DistinctInput
    /\ \E i, j \in DOMAIN extracted :
           /\ i < j
           /\ extracted[i]["type"] = extracted[j]["type"]
           /\ CheckEntityProximity(extracted[i]["text"], extracted[j]["text"],
                                   doc.text, WindowSize) > 0
    /\ Len(inferred) = 2

-----------------------------------------------------------------------------
(* Claims about what the store keeps. *)

\* The source documents of the entity stored under the id.
StoredDocuments(emap, entity_id) ==
    Get(DictGet(emap, entity_id), "source_documents", {})

\* C27: over add_entities, add_relationships and search calls in any order
\* the store only grows and merges: no entity id and no relationship id
\* leaves entity_map or relationship_map, and the source_documents of a
\* stored entity loses no member.
C27_AppendOnlyMergeOnly ==
    [][/\ DictKeys(entity_map) \subseteq DictKeys(entity_map')
       /\ DictKeys(relationship_map) \subseteq DictKeys(relationship_map')
       /\ \A entity_id \in DictKeys(entity_map) :
              StoredDocuments(entity_map, entity_id)
                  \subseteq StoredDocuments(entity_map', entity_id)]_vars

\* A second mention was merged into a stored entity, and the store was
\* searched afterwards.
C27_Witness ==
    /\ last_call.op = "search_entities"
    /\ calls = 2
    /\ Len(entity_map) = 1
    /\ StoredDocuments(entity_map, entity_map[1].k) = {"d1", "d2"}

-----------------------------------------------------------------------------
(* Claims about slots across a restart. *)

\* The store was constructed with the persisted index in hand and then
\* loaded from the bucket.
ReloadedWithIndex ==
    /\ last_call.op = "load_all_from_storage"
    /\ index # <<>>
    /\ index = blob_index

\* C28: after a restart that reloads the persisted index and calls
\* load_all_from_storage, every entity has the slot it had before the
\* restart, so that an index position still refers to the same entity.
C28_SlotsSurviveRestart ==
    ReloadedWithIndex =>
        \A i \in DOMAIN slots_before :
            /\ DictHas(entity_id_map, slots_before[i].k)
            /\ DictGet(entity_id_map, slots_before[i].k) = slots_before[i].v

-----------------------------------------------------------------------------
(* Claims about a document that fails. *)

\* C29: in process_all_documents a document that is recorded in errors has
\* left no entity and no relationship in the store: the step that records
\* the error changes neither the maps in memory, nor the index, nor the
\* durable records.
C29_FailureLeavesNoTrace ==
    [][Len(errors') > Len(errors) =>
          /\ entity_map' = entity_map
          /\ entity_id_map' = entity_id_map
          /\ relationship_map' = relationship_map
          /\ index' = index
          /\ blob_index' = blob_index
          /\ blob_entities' = blob_entities
          /\ blob_relationships' = blob_relationships]_vars

-----------------------------------------------------------------------------
(* Claims about the slots. *)

\* The slots of the map are pairwise distinct and are 0..n-1 for n keys.
SlotsExact(id_map) ==
    /\ \A i, j \in DOMAIN id_map : id_map[i].v = id_map[j].v => i = j
    /\ {id_map[i].v : i \in DOMAIN id_map} = 0..(Len(id_map) - 1)

\* C30: in every sequential run of add_entities and load_all_from_storage
\* calls the slots of entity_id_map are pairwise distinct and are exactly
\* 0..n-1 for n keys, and a key keeps the slot it was given.
C30_SlotsExactAndStable ==
    [][/\ SlotsExact(entity_id_map')
       /\ \A i \in DOMAIN entity_id_map :
              DictGet(entity_id_map', entity_id_map[i].k) = entity_id_map[i].v]_vars

====
